---- MODULE Spec2Model ----
(***************************************************************************)
(* A model of mongodb-gridfs-rs: the GridFS bucket operations              *)
(* upload_from_stream (with ensure_file_index), open_download_stream,      *)
(* delete, rename, drop and find, running against a document store that    *)
(* holds the two collections <bucket>.files and <bucket>.chunks.           *)
(*                                                                         *)
(* Every store round trip (each `.await` on a collection or database       *)
(* call) is one step, so that calls made through different bucket handles  *)
(* interleave at the places where they can interleave in the program.      *)
(* upload_from_stream takes `&mut self`: one handle runs one upload at a    *)
(* time.  delete and the download take `&self` and run through handles of  *)
(* their own (clones of the bucket).                                       *)
(***************************************************************************)
EXTENDS Integers, Sequences, FiniteSets, TLC

\* ------------------------------------------------------------- bounds
\* Bytes the chunks collection holds at most: a source is no longer than what is
\* left of it when its upload starts.
MaxBytes == 3
\* Largest chunk size (bucket option or per-call override).
MaxChunkSize == 2
\* Number of file documents ever inserted (ObjectIds handed out).
MaxFiles == 2

\* ------------------------------------------------------------- values
\* Option<T>: None is the empty sequence, Some(x) the sequence of x alone.
None == <<>>
Some(x) == <<x>>
Bytes == {1, 2}
Sources == UNION {[1..k -> Bytes] : k \in 0..MaxBytes}
ChunkSizes == 0..MaxChunkSize
Ids == 1..MaxFiles
Filenames == {"test.txt"}
\* Option<Document>: the metadata of an upload's options.
Metadatas == {None}
\* Whether an upload's options carry a progress_tick.
ProgressTicks == {FALSE}
BucketNames == {"fs"}
\* chunk_size_bytes of the bucket's options.
BucketChunkSizes == {MaxChunkSize}
WriterHandles == {1}
\* new_filename of rename.
NewFilenames == {"renamed.txt", "test.txt"}
\* filter of find: a document as its sequence of <<field, value>>.
Filters == {<< <<"filename", x>> >> : x \in NewFilenames}
\* skip of GridFSFindOptions.
Skips == {0, 1}
\* limit of GridFSFindOptions.
Limits == {None, Some(1)}
\* sort of GridFSFindOptions: a document of one field and its direction.
Sorts == {None, Some([f |-> "_id", dir |-> 1]), Some([f |-> "_id", dir |-> -1])}

Min(a, b) == IF a <= b THEN a ELSE b
Max(a, b) == IF a >= b THEN a ELSE b

\* vec![0; n]: a buffer of n bytes, held as its length and its bytes up to the
\* last one a read has written; the bytes after them are 0.
vec0(n) == [len |-> n, head |-> <<>>]

\* The byte at a place of a buffer.
At(v, i) == IF i <= Len(v.head) THEN v.head[i] ELSE 0

\* ---------------------------------------------------------- variables
VARIABLES
    files,          \* <bucket>.files: [_id -> file document]
    chunks,         \* <bucket>.chunks: chunk documents in natural (insertion) order
    indexes,        \* [collection that exists -> set of its indexes]
    nextId,         \* the next ObjectId the driver generates
    clock,          \* Utc::now(), a logical clock
    options,        \* [handle -> Option<GridFSBucketOptions>]
    never_write,    \* [handle -> GridFSBucket.never_write]
    up,             \* [handle -> the upload_from_stream call in progress]
    dl,             \* the open_download_stream call and its stream
    del,            \* the delete call
    rn,             \* the rename call
    dr,             \* the drop call
    fd,             \* the find call and the documents of its cursor
    called,         \* history: [handle -> upload_from_stream was called on it]
    returned,       \* history: [_id -> source content] of uploads that returned Ok
    removed         \* history: the ids whose file document delete or drop has removed

vars == <<files, chunks, indexes, nextId, clock, options,
          never_write, up, dl, del, rn, dr, fd, called, returned, removed>>

\* ------------------------------------------------------ pure functions

RECURSIVE Concat(_)
\* Concatenation of a sequence of byte buffers.
Concat(bufs) ==
    IF bufs = <<>> THEN <<>> ELSE Head(bufs) \o Concat(Tail(bufs))

RECURSIVE SelectSeq2(_, _)
\* chunks.find({"files_id": id}) in natural order.
SelectSeq2(docs, id) ==
    IF docs = <<>> THEN <<>>
    ELSE IF Head(docs).files_id = id
         THEN <<Head(docs)>> \o SelectSeq2(Tail(docs), id)
         ELSE SelectSeq2(Tail(docs), id)

RECURSIVE InsertByN(_, _)
\* Insert doc d in a sequence sorted ascending by n, after the docs with n <= d.n.
InsertByN(sorted, d) ==
    IF sorted = <<>> THEN <<d>>
    ELSE IF Head(sorted).n <= d.n
         THEN <<Head(sorted)>> \o InsertByN(Tail(sorted), d)
         ELSE <<d>> \o sorted

RECURSIVE SortByN(_)
\* FindOptions.sort({"n": 1}): a stable ascending sort on n.
SortByN(docs) ==
    IF docs = <<>> THEN <<>>
    ELSE InsertByN(SortByN(SubSeq(docs, 1, Len(docs) - 1)), docs[Len(docs)])

\* ------------------------------------------------------------- md5
\* The Md5 hasher, scaled down to a 16-bit digest: a streaming hash whose state
\* after update(a); update(b) is the state after update(a \o b).
Md5Default == 1

RECURSIVE Md5Update(_, _)
\* md5.update(&bin)
Md5Update(state, bytes) ==
    IF bytes = <<>> THEN state
    ELSE Md5Update((state * 31 + Head(bytes)) % 65521, Tail(bytes))

\* md5.finalize(): the digest bytes, most significant first.
Md5Finalize(state) == <<state \div 256, state % 256>>

HexDigits == <<"0", "1", "2", "3", "4", "5", "6", "7",
               "8", "9", "a", "b", "c", "d", "e", "f">>

RECURSIVE LowerHex(_)
\* format!("{:02x}", digest): two lowercase hex digits per digest byte.
LowerHex(digest) ==
    IF digest = <<>> THEN <<>>
    ELSE <<HexDigits[(Head(digest) \div 16) + 1], HexDigits[(Head(digest) % 16) + 1]>>
         \o LowerHex(Tail(digest))

\* ------------------------------------------------------------- indexes
I32(v) == [t |-> "i32", v |-> v]
\* An f64, in units of 1/100000.
F64(v) == [t |-> "f64", v |-> v]

\* "key" of the index createIndexes is asked for on the files collection.
FilesIndexKey == <<[f |-> "filename", val |-> I32(1)],
                   [f |-> "uploadDate", val |-> F64(100000)]>>
\* "key" of the index createIndexes is asked for on the chunks collection.
ChunksIndexKey == <<[f |-> "files_id", val |-> I32(1)],
                    [f |-> "n", val |-> I32(1)]>>
\* The index every collection is created with.
IdIndex == [name |-> "_id_", key |-> <<[f |-> "_id", val |-> I32(1)]>>]

\* key.get_i32(field): Ok(v) when the field is there and is an Int32.
get_i32(key, field) ==
    IF \E i \in 1..Len(key) : key[i].f = field /\ key[i].val.t = "i32"
    THEN [ok |-> TRUE,
          v |-> key[CHOOSE i \in 1..Len(key) : key[i].f = field].val.v]
    ELSE [ok |-> FALSE, v |-> 0]

\* key.get_f64(field): Ok(x) when the field is there and is a Double.
get_f64(key, field) ==
    IF \E i \in 1..Len(key) : key[i].f = field /\ key[i].val.t = "f64"
    THEN [ok |-> TRUE,
          v |-> key[CHOOSE i \in 1..Len(key) : key[i].f = field].val.v]
    ELSE [ok |-> FALSE, v |-> 0]

\* (x - 1.0).abs() < 0.0001, x in units of 1/100000
NearOne(x) == (IF x >= 100000 THEN x - 100000 ELSE 100000 - x) < 10

\* The match on (i32, i32, f64, f64) of the two key fields of one index.
KeyMatches(key, f1, f2) ==
    LET a  == get_i32(key, f1)
        b  == get_i32(key, f2)
        af == get_f64(key, f1)
        bf == get_f64(key, f2)
    IN  \/ a.ok /\ a.v = 1 /\ b.ok /\ b.v = 1
        \/ af.ok /\ bf.ok /\ NearOne(af.v) /\ NearOne(bf.v)
        \/ a.ok /\ a.v = 1 /\ bf.ok /\ NearOne(bf.v)
        \/ b.ok /\ b.v = 1 /\ af.ok /\ NearOne(af.v)

\* have_index after the loop over listIndexes' firstBatch.
have_index(coll_indexes, f1, f2) ==
    \E index \in coll_indexes : KeyMatches(index.key, f1, f2)

\* ------------------------------------------------------------ options
\* impl Default for GridFSBucketOptions
GridFSBucketOptions_default ==
    [bucket_name |-> "fs", chunk_size_bytes |-> 255 * 1024, disable_md5 |-> FALSE]

\* Built options with a chunk size of 256 KiB.
BuilderBuild256K ==
    [bucket_name |-> "fs", chunk_size_bytes |-> 256 * 1024, disable_md5 |-> FALSE]

\* GridFSBucketOptions::builder().build(): every field at its #[builder(default)].
GridFSBucketOptions_builder_build ==
    [bucket_name |-> "fs", chunk_size_bytes |-> 255 * 1024, disable_md5 |-> FALSE]

\* Options that default to a chunk size of 256 KiB.
UnwrapOrDefault256K(o) ==
    IF o = None
    THEN [bucket_name |-> "fs", chunk_size_bytes |-> 256 * 1024, disable_md5 |-> FALSE]
    ELSE o[1]

\* Option::unwrap_or_default
unwrap_or_default(o) == IF o = None THEN GridFSBucketOptions_default ELSE o[1]

\* let dboptions = self.options.clone().unwrap_or_default();
dboptions(h) == unwrap_or_default(options[h])

\* ------------------------------------------------------------- names
file_collection(h) == dboptions(h).bucket_name \o ".files"
chunk_collection(h) == dboptions(h).bucket_name \o ".chunks"

\* ---------------------------------------------------- upload_from_stream
\* The locals of an upload_from_stream call that is not running; err is the
\* operation whose error the call has met, "" while it has met none.
IdleUpload ==
    [pc |-> "idle", first |-> FALSE, filename |-> "", source |-> <<>>, B |-> <<>>,
     chunk_size_bytes |-> None, chunk_size |-> 0, disable_md5 |-> FALSE,
     metadata |-> None, err |-> "",
     progress_tick |-> FALSE, coll |-> "", files_id |-> 0, md5 |-> Md5Default,
     vecbuf |-> vec0(0), length |-> 0, n |-> 0, ticks |-> <<>>, short_read |-> FALSE]

\* Option<GridFSUploadOptions>
UploadOptions ==
    {None} \cup
    {Some(o) : o \in [chunk_size_bytes : {None} \cup {Some(c) : c \in ChunkSizes},
                      metadata : Metadatas,
                      progress_tick : ProgressTicks]}

\* Option<GridFSUploadOptions> with the options that do not shape the chunks:
\* a metadata document and a progress_tick.
UploadOptionsExtras ==
    {None} \cup
    {Some(o) : o \in [chunk_size_bytes : {None} \cup {Some(c) : c \in ChunkSizes},
                      metadata : {None, Some([author |-> "me"])},
                      progress_tick : BOOLEAN]}

\* A chunk size that is the bucket's whatever the call's options say.
EffectiveChunkSizeBucket(h, opts) == dboptions(h).chunk_size_bytes

\* let mut chunk_size = dboptions.chunk_size_bytes, overridden by the call's option.
EffectiveChunkSize(h, opts) ==
    IF opts # None /\ opts[1].chunk_size_bytes # None
    THEN opts[1].chunk_size_bytes[1]
    ELSE dboptions(h).chunk_size_bytes

\* The collection a block of ensure_file_index works on.
CollName(h, coll) ==
    IF coll = "files" THEN file_collection(h) ELSE chunk_collection(h)

\* The database after a write to a collection: a collection that does not exist
\* is created, with its _id index.
AutoCreate(idx, name) ==
    IF name \in DOMAIN idx THEN idx ELSE idx @@ (name :> {IdIndex})

\* upload_from_stream is called: it resolves its options and enters
\* ensure_file_index, which returns at once when never_write is false.
upload_from_stream_with(h, optionses) ==
    /\ up[h].pc = "idle"
    /\ nextId <= MaxFiles
    /\ \E filename \in Filenames, opts \in optionses :
         up' = [up EXCEPT ![h] =
                  [IdleUpload EXCEPT
                     !.pc = IF never_write[h] THEN "find_one" ELSE "insert_file",
                     !.first = ~called[h],
                     !.filename = filename,
                     !.chunk_size_bytes = IF opts = None THEN None
                                          ELSE opts[1].chunk_size_bytes,
                     !.chunk_size = EffectiveChunkSize(h, opts),
                     !.disable_md5 = dboptions(h).disable_md5,
                     !.metadata = IF opts = None THEN None ELSE opts[1].metadata,
                     !.progress_tick = IF opts = None THEN FALSE
                                       ELSE opts[1].progress_tick]]
    /\ called' = [called EXCEPT ![h] = TRUE]
    /\ UNCHANGED <<rn, dr, fd, files, chunks, indexes, nextId, clock, options,
                   never_write, dl, del, returned, removed>>

\* A probe that finds no document whatever the collection holds.
ProbeAlwaysEmpty(coll) == Some(None)

\* upload_from_stream called with options that carry a chunk size or none.
upload_from_stream(h) == upload_from_stream_with(h, UploadOptions)

\* upload_from_stream called with options that may carry metadata and a
\* progress_tick as well.
upload_from_stream_extras(h) == upload_from_stream_with(h, UploadOptionsExtras)

\* files.find_one({}, projection {"_id": 1}).await.ok(): Some(None) for an empty
\* collection, Some(Some(_)) for one that holds a document.
probe(coll) == IF DOMAIN coll = {} THEN Some(None) ELSE Some(Some("_id"))

\* ensure_file_index: the test find_one(..).await.ok() == Some(None), and what
\* follows when it is false: never_write = false and the return.
ensure_find_one(h) ==
    /\ up[h].pc = "find_one"
    /\ IF probe(files) = Some(None)
       THEN /\ up' = [up EXCEPT ![h].pc = "list_collection_names",
                                ![h].coll = "files"]
            /\ UNCHANGED never_write
       ELSE /\ up' = [up EXCEPT ![h].pc = "insert_file"]
            /\ never_write' = [never_write EXCEPT ![h] = FALSE]
    /\ UNCHANGED <<called, rn, dr, fd, files, chunks, indexes, nextId, clock,
                   options, dl, del, returned, removed>>

\* ensure_file_index: the probe fails in the store.  .ok() is None, which is not
\* Some(None): the blocks are skipped, never_write = false, and the upload goes on.
ensure_find_one_err(h) ==
    /\ up[h].pc = "find_one"
    /\ up' = [up EXCEPT ![h].pc = "insert_file", ![h].err = "find_one"]
    /\ never_write' = [never_write EXCEPT ![h] = FALSE]
    /\ UNCHANGED <<called, rn, dr, fd, files, chunks, indexes, nextId, clock,
                   options, dl, del, returned, removed>>

\* ensure_file_index: list_collection_names({"name": collection}).
ensure_list_collection_names(h) ==
    /\ up[h].pc = "list_collection_names"
    /\ up' = [up EXCEPT ![h].pc =
                IF CollName(h, up[h].coll) \in DOMAIN indexes
                THEN "listIndexes" ELSE "create_collection"]
    /\ UNCHANGED <<called, rn, dr, fd, files, chunks, indexes, nextId, clock,
                   options, never_write, dl, del, returned, removed>>

\* ensure_file_index: create_collection, which fails on a collection that exists.
ensure_create_collection(h) ==
    /\ up[h].pc = "create_collection"
    /\ IF CollName(h, up[h].coll) \in DOMAIN indexes
       THEN /\ up' = [up EXCEPT ![h].pc = "failed", ![h].err = "create_collection"]
            /\ UNCHANGED indexes
       ELSE /\ indexes' = indexes @@ (CollName(h, up[h].coll) :> {IdIndex})
            /\ up' = [up EXCEPT ![h].pc = "listIndexes"]
    /\ UNCHANGED <<called, rn, dr, fd, files, chunks, nextId, clock, options,
                   never_write, dl, del, returned, removed>>

\* The end of ensure_file_index with a flag that all handles share.
AfterBlockSharedFlag(h) ==
    IF up[h].coll = "files"
    THEN /\ up' = [up EXCEPT ![h].pc = "list_collection_names",
                             ![h].coll = "chunks"]
         /\ UNCHANGED never_write
    ELSE /\ up' = [up EXCEPT ![h].pc = "insert_file"]
         /\ never_write' = [g \in DOMAIN never_write |-> FALSE]

\* The end of ensure_file_index without never_write = false.
AfterBlockFlagStays(h) ==
    /\ up' = [up EXCEPT ![h].pc = IF up[h].coll = "files"
                                  THEN "list_collection_names" ELSE "insert_file",
                        ![h].coll = "chunks"]
    /\ UNCHANGED never_write

\* What follows a block of ensure_file_index: the chunks block after the files
\* block, and after the chunks block never_write = false and the return.
AfterBlock(h) ==
    IF up[h].coll = "files"
    THEN /\ up' = [up EXCEPT ![h].pc = "list_collection_names",
                             ![h].coll = "chunks"]
         /\ UNCHANGED never_write
    ELSE /\ up' = [up EXCEPT ![h].pc = "insert_file"]
         /\ never_write' = [never_write EXCEPT ![h] = FALSE]

\* ensure_file_index: listIndexes and the loop that computes have_index.
ensure_listIndexes(h) ==
    /\ up[h].pc = "listIndexes"
    /\ LET name == CollName(h, up[h].coll)
           f1 == IF up[h].coll = "files" THEN "filename" ELSE "files_id"
           f2 == IF up[h].coll = "files" THEN "uploadDate" ELSE "n"
       IN  IF name \notin DOMAIN indexes
           THEN /\ up' = [up EXCEPT ![h].pc = "failed", ![h].err = "listIndexes"]
                /\ UNCHANGED never_write
           ELSE IF have_index(indexes[name], f1, f2)
           THEN AfterBlock(h)
           ELSE /\ up' = [up EXCEPT ![h].pc = "createIndexes"]
                /\ UNCHANGED never_write
    /\ UNCHANGED <<called, rn, dr, fd, files, chunks, indexes, nextId, clock,
                   options, dl, del, returned, removed>>

\* An index whose name is not the same for every handle.
RequiredIndexPerHandle(h, coll) ==
    [name |-> CollName(h, coll) \o (IF h = 1 THEN "_index" ELSE "_index_2"),
     key |-> IF coll = "files" THEN FilesIndexKey ELSE ChunksIndexKey]

\* create_files_index / create_chunks_index: the index createIndexes is asked for.
RequiredIndex(h, coll) ==
    [name |-> CollName(h, coll) \o "_index",
     key |-> IF coll = "files" THEN FilesIndexKey ELSE ChunksIndexKey]

\* ensure_file_index: create_files_index / create_chunks_index.
ensure_createIndexes(h) ==
    /\ up[h].pc = "createIndexes"
    /\ LET name == CollName(h, up[h].coll)
       IN  indexes' = [AutoCreate(indexes, name) EXCEPT
                         ![name] = @ \cup {RequiredIndex(h, up[h].coll)}]
    /\ AfterBlock(h)
    /\ UNCHANGED <<called, rn, dr, fd, files, chunks, nextId, clock, options,
                   dl, del, returned, removed>>

\* A file document that is inserted with a length.
FileDocumentWithLength(filename, chunk_size, metadata) ==
    [filename |-> filename, chunkSize |-> chunk_size, length |-> 0]

\* A file document that always has a metadata field, empty when the options
\* carry none.
FileDocumentNullMetadata(filename, chunk_size, metadata) ==
    [filename |-> filename, chunkSize |-> chunk_size, metadata |-> metadata]

\* The file document upload_from_stream inserts: filename and chunkSize, and
\* metadata when the call's options carry one.
file_document(filename, chunk_size, metadata) ==
    IF metadata = None
    THEN [filename |-> filename, chunkSize |-> chunk_size]
    ELSE [filename |-> filename, chunkSize |-> chunk_size, metadata |-> metadata[1]]

RECURSIVE StoredBytes(_)
\* The number of payload bytes a sequence of chunk documents holds.
StoredBytes(docs) ==
    IF docs = <<>> THEN 0 ELSE Len(Head(docs).data) + StoredBytes(Tail(docs))

RECURSIVE PendingBytes(_)
\* The number of bytes the sources of a set of running uploads still hold.
PendingBytes(hs) ==
    IF hs = {} THEN 0
    ELSE LET h == CHOOSE x \in hs : TRUE
         IN  Len(up[h].source) + PendingBytes(hs \ {h})

\* files.insert_one(file_document), then the locals of the chunk loop.  The
\* content of the source, which nothing has read before, is drawn here.
upload_insert_file(h) ==
    /\ up[h].pc = "insert_file"
    /\ files' = files @@ (nextId :> file_document(up[h].filename, up[h].chunk_size,
                                                  up[h].metadata))
    /\ indexes' = AutoCreate(indexes, file_collection(h))
    /\ nextId' = nextId + 1
    /\ \E source \in {s \in Sources :
                        Len(s) + StoredBytes(chunks) + PendingBytes(DOMAIN up \ {h})
                            <= MaxBytes} :
         up' = [up EXCEPT ![h].pc = "read",
                        ![h].source = source,
                        ![h].B = source,
                        ![h].files_id = nextId,
                        ![h].md5 = Md5Default,
                        ![h].vecbuf = vec0(up[h].chunk_size),
                        ![h].length = 0,
                        ![h].n = 0]
    /\ UNCHANGED <<called, rn, dr, fd, chunks, clock, options, never_write, dl,
                   del, returned, removed>>

\* A source that hands out bytes whatever the length of the buffer.
ReadSizesIgnoreBuffer(buflen, source) ==
    IF source = <<>> THEN {0} ELSE 1..Len(source)

\* What source.read(buffer) may return for a buffer of buflen bytes: 0 at the end
\* of the source or for an empty buffer, else any number of bytes from 1 to what
\* the buffer and the source hold.
read_sizes(buflen, source) ==
    IF buflen = 0 \/ source = <<>> THEN {0}
    ELSE 1..Min(buflen, Len(source))

\* The buffer after a read of read_size bytes: the bytes beyond them are those of
\* the reads before.
read_into(vecbuf, source, read_size) ==
    [vecbuf EXCEPT !.head = [i \in 1..Max(read_size, Len(vecbuf.head)) |->
                               IF i <= read_size THEN source[i] ELSE vecbuf.head[i]]]

\* Vec::resize(new_len, value)
Resize(v, new_len, value) ==
    [i \in 1..new_len |-> IF i <= v.len THEN At(v, i) ELSE value]

\* A chunk payload that is the whole buffer, not cut to the bytes of this read.
BinWholeBuffer(buffer, read_size) == [i \in 1..buffer.len |-> At(buffer, i)]

\* let mut bin = Vec::from(buffer); bin.resize(read_size, 0);
bin(buffer, read_size) == Resize(buffer, read_size, 0)

\* A chunk document that carries the id of the newest file document.
ChunkDocumentOfNewestFile(files_id, n, data) ==
    [files_id |-> nextId - 1, n |-> n, data |-> data]

\* The chunk document of the loop's insert_one.
chunk_document(files_id, n, data) ==
    [files_id |-> files_id, n |-> n, data |-> data]

\* A progress_tick that is told the number of chunks, not of bytes.
ProgressTickCounts(ticks, position) == Append(ticks, Len(ticks) + 1)

\* progress_tick.update(length): the positions the callback has been told.
progress_tick_update(ticks, position) == Append(ticks, position)

\* A loop that no read ends.
LoopNeverBreaks(read_size) == FALSE

\* if read_size == 0 { break; }
loop_breaks(read_size) == read_size = 0

\* A sequence counter that stays where it is.
NextNStuck(n) == n

\* n += 1;
next_n(n) == n + 1

\* One turn of the loop: the read, and unless it breaks the md5 update, the
\* chunk insert, the counters and the progress tick.
upload_chunk(h) ==
    /\ up[h].pc = "read"
    /\ \E read_size \in read_sizes(up[h].vecbuf.len, up[h].source) :
         LET u == up[h]
             buffer == read_into(u.vecbuf, u.source, read_size)
             rest == SubSeq(u.source, read_size + 1, Len(u.source))
             data == bin(buffer, read_size)
         IN  IF loop_breaks(read_size)
             THEN /\ up' = [up EXCEPT ![h].pc = "update",
                                      ![h].vecbuf = buffer,
                                      ![h].source = rest]
                  /\ UNCHANGED <<chunks, indexes>>
             ELSE /\ chunks' = Append(chunks, chunk_document(u.files_id, u.n, data))
                  /\ indexes' = AutoCreate(indexes, chunk_collection(h))
                  /\ up' = [up EXCEPT
                              ![h].vecbuf = buffer,
                              ![h].source = rest,
                              ![h].md5 = Md5Update(u.md5, data),
                              ![h].length = u.length + read_size,
                              ![h].n = next_n(u.n),
                              ![h].ticks =
                                  IF u.progress_tick
                                  THEN progress_tick_update(u.ticks,
                                                            u.length + read_size)
                                  ELSE u.ticks,
                              ![h].short_read =
                                  u.short_read \/
                                  read_size < Min(u.vecbuf.len, Len(u.source))]
    /\ UNCHANGED <<called, rn, dr, fd, files, nextId, clock, options,
                   never_write, dl, del, returned, removed>>

\* An update that sets a length of 0 whatever was read.
UpdateDocumentZeroLength(length, now, disable_md5, md5) ==
    IF disable_md5
    THEN [length |-> 0, uploadDate |-> now]
    ELSE [length |-> 0, uploadDate |-> now, md5 |-> LowerHex(Md5Finalize(md5))]

\* An update that sets md5 whatever disable_md5 says.
UpdateDocumentAlwaysMd5(length, now, disable_md5, md5) ==
    [length |-> length, uploadDate |-> now, md5 |-> LowerHex(Md5Finalize(md5))]

\* let mut update = doc! {"length", "uploadDate"}, and "md5" unless disable_md5.
update_document(length, now, disable_md5, md5) ==
    IF disable_md5
    THEN [length |-> length, uploadDate |-> now]
    ELSE [length |-> length, uploadDate |-> now,
          md5 |-> LowerHex(Md5Finalize(md5))]

\* An update that replaces the document by the fields it sets.
UpdateOneReplace(coll, id, update) ==
    IF id \in DOMAIN coll THEN [coll EXCEPT ![id] = update] ELSE coll

\* An update that inserts the document when none matches.
UpdateOneUpsert(coll, id, update) ==
    IF id \in DOMAIN coll
    THEN [coll EXCEPT ![id] = update @@ @]
    ELSE coll @@ (id :> update)

\* An update with an empty filter: it changes every document.
UpdateEveryDocument(coll, id, update) ==
    [i \in DOMAIN coll |-> update @@ coll[i]]

\* update_one({"_id": id}, {"$set": update}) on the files collection.
update_one_set(coll, id, update) ==
    IF id \in DOMAIN coll
    THEN [coll EXCEPT ![id] = update @@ @]
    ELSE coll

\* files.update_one({"_id": files_id}, {"$set": update}), then Ok(files_id).
upload_update(h) ==
    /\ up[h].pc = "update"
    /\ files' = update_one_set(files, up[h].files_id,
                               update_document(up[h].length, clock,
                                               up[h].disable_md5, up[h].md5))
    /\ clock' = clock + 1
    /\ up' = [up EXCEPT ![h].pc = "done"]
    /\ returned' = returned @@ (up[h].files_id :> up[h].B)
    /\ UNCHANGED <<called, rn, dr, fd, chunks, indexes, nextId, options,
                   never_write, dl, del, removed>>

\* The places of ensure_file_index where `?` returns an error of the store.
EnsureFallible ==
    {"list_collection_names", "create_collection", "listIndexes", "createIndexes"}

\* A store operation of ensure_file_index fails: `?` returns the error from
\* ensure_file_index and from upload_from_stream, never_write stays as it is.
ensure_fail(h) ==
    /\ up[h].pc \in EnsureFallible
    /\ up' = [up EXCEPT ![h].pc = "failed", ![h].err = up[h].pc]
    /\ UNCHANGED <<called, rn, dr, fd, files, chunks, indexes, nextId, clock,
                   options, never_write, dl, del, returned, removed>>

\* The places of upload_from_stream where `?` returns an error of the store or
\* of the source.
UploadFallible == {"insert_file", "read", "update"}

\* A failure that is followed by a compensating delete of what the upload wrote.
UploadFailRollback(h) ==
    /\ up[h].pc \in UploadFallible
    /\ up' = [up EXCEPT ![h].pc = "failed", ![h].err = up[h].pc]
    /\ files' = [i \in DOMAIN files \ {up[h].files_id} |-> files[i]]
    /\ chunks' = SelectSeq(chunks, LAMBDA d : d.files_id # up[h].files_id)
    /\ UNCHANGED <<called, rn, dr, fd, indexes, nextId, clock,
                   options, never_write, dl, del, returned, removed>>

\* An insert, the read of the source or the final update fails: `?` returns the
\* error, nothing is written by the operation that failed.
upload_fail(h) ==
    /\ up[h].pc \in UploadFallible
    /\ up' = [up EXCEPT ![h].pc = "failed", ![h].err = up[h].pc]
    /\ UNCHANGED <<called, rn, dr, fd, files, chunks, indexes, nextId, clock,
                   options, never_write, dl, del, returned, removed>>

\* The call has returned (Ok or Err): the handle is free for the next call.
upload_return(h) ==
    /\ up[h].pc \in {"done", "failed"}
    /\ up' = [up EXCEPT ![h] = IdleUpload]
    /\ UNCHANGED <<called, rn, dr, fd, files, chunks, indexes, nextId, clock,
                   options, never_write, dl, del, returned, removed>>

\* ------------------------------------------------- open_download_stream
\* The locals of a download that is not running.
IdleDownload ==
    [pc |-> "idle", id |-> 0, filename |-> "", cursor |-> <<>>, out |-> <<>>,
     result |-> "", chunk_finds |-> 0, snapshot |-> <<>>, after_ok |-> FALSE]

\* A lookup that finds a file document for every id.
FindOneAlways(coll, id) ==
    IF id \in DOMAIN coll THEN Some(coll[id]) ELSE Some([filename |-> "test.txt"])

\* files.find_one({"_id": id})
find_one(coll, id) == IF id \in DOMAIN coll THEN Some(coll[id]) ELSE None

\* open_download_stream_with_filename up to the lookup of the file document:
\* an error of the store is returned by `?`, no file document is FileNotFound.
open_download_stream_with_filename ==
    /\ dl.pc = "idle"
    /\ \E id \in Ids, result \in {"ok", "err"} :
         LET file == find_one(files, id)
             call == [IdleDownload EXCEPT !.id = id,
                                          !.after_ok = id \in DOMAIN returned]
         IN  dl' = IF result = "err"
                   THEN [call EXCEPT !.pc = "done", !.result = "MongoError"]
                   ELSE IF file # None
                   THEN [call EXCEPT !.pc = "chunks_find",
                                     !.filename = file[1].filename]
                   ELSE [call EXCEPT !.pc = "done", !.result = "FileNotFound"]
    /\ UNCHANGED <<called, rn, dr, fd, files, chunks, indexes, nextId, clock,
                   options, never_write, up, del, returned, removed>>

\* A find on the chunks collection without the filter on files_id.
ChunksFindUnfiltered(coll, id) == SortByN(coll)

\* chunks.find({"files_id": id}, sort {"n": 1}): the documents of the cursor.
chunks_find(coll, id) == SortByN(SelectSeq2(coll, id))

\* chunks.find(...).await.unwrap(): the cursor, or a panic on an error of the store.
download_chunks_find ==
    /\ dl.pc = "chunks_find"
    /\ \E result \in {"ok", "err"} :
         dl' = IF result = "ok"
               THEN [dl EXCEPT !.pc = "streaming",
                               !.result = "Ok",
                               !.cursor = chunks_find(chunks, dl.id),
                               !.snapshot = chunks,
                               !.chunk_finds = dl.chunk_finds + 1]
               ELSE [dl EXCEPT !.pc = "done",
                               !.result = "panic",
                               !.chunk_finds = dl.chunk_finds + 1]
    /\ UNCHANGED <<called, rn, dr, fd, files, chunks, indexes, nextId, clock,
                   options, never_write, up, del, returned, removed>>

\* A stream item that holds the bytes of the chunk twice.
StreamItemDoubled(doc) == doc.data \o doc.data

\* The closure of the stream's map: the "data" binary of a chunk document.
stream_item(doc) == doc.data

\* stream.next(): the buffer of the next document of the cursor, or None at its end.
stream_next ==
    /\ dl.pc = "streaming"
    /\ dl' = IF dl.cursor = <<>>
             THEN [dl EXCEPT !.pc = "ended"]
             ELSE [dl EXCEPT !.out = Append(dl.out, stream_item(Head(dl.cursor))),
                             !.cursor = Tail(dl.cursor)]
    /\ UNCHANGED <<called, rn, dr, fd, files, chunks, indexes, nextId, clock,
                   options, never_write, up, del, returned, removed>>

\* The caller is done with the result or the stream.
download_return ==
    /\ dl.pc \in {"done", "ended"}
    /\ dl' = IdleDownload
    /\ UNCHANGED <<called, rn, dr, fd, files, chunks, indexes, nextId, clock,
                   options, never_write, up, del, returned, removed>>

\* ---------------------------------------------------------------- delete
\* The locals of a delete that is not running.
IdleDelete == [pc |-> "idle", id |-> 0, result |-> "", chunk_deletes |-> 0]

\* files.delete_one({"_id": id}): the collection afterwards.
delete_one(coll, id) == [i \in DOMAIN coll \ {id} |-> coll[i]]

\* delete_result.deleted_count
deleted_count(coll, id) == IF id \in DOMAIN coll THEN 1 ELSE 0

\* A delete that never returns FileNotFound.
DeleteNeverNotFound(count) == FALSE

\* if delete_result.deleted_count == 0 { return Err(FileNotFound) }
delete_not_found(count) == count = 0

\* delete up to the return of FileNotFound: files.delete_one and its result.
delete ==
    /\ del.pc = "idle"
    /\ \E id \in Ids, result \in {"ok", "err"} :
         IF result = "err"
         THEN /\ del' = [IdleDelete EXCEPT !.pc = "done", !.id = id,
                                           !.result = "MongoError"]
              /\ UNCHANGED <<files, removed>>
         ELSE /\ files' = delete_one(files, id)
              /\ removed' = IF deleted_count(files, id) = 1
                            THEN removed \cup {id} ELSE removed
              /\ del' = IF delete_not_found(deleted_count(files, id))
                        THEN [IdleDelete EXCEPT !.pc = "done", !.id = id,
                                                !.result = "FileNotFound"]
                        ELSE [IdleDelete EXCEPT !.pc = "delete_many", !.id = id]
    /\ UNCHANGED <<called, rn, dr, fd, chunks, indexes, nextId, clock, options,
                   never_write, up, dl, returned>>

\* A delete_many that deletes nothing.
DeleteManyNone(coll, id) == coll

\* chunks.delete_many({"files_id": id}): the collection afterwards.
delete_many(coll, id) == SelectSeq(coll, LAMBDA d : d.files_id # id)

\* delete after the file document is gone: chunks.delete_many, then Ok(()).
delete_chunks ==
    /\ del.pc = "delete_many"
    /\ \E result \in {"ok", "err"} :
         IF result = "ok"
         THEN /\ chunks' = delete_many(chunks, del.id)
              /\ del' = [del EXCEPT !.pc = "done", !.result = "Ok",
                                    !.chunk_deletes = del.chunk_deletes + 1]
         ELSE /\ del' = [del EXCEPT !.pc = "done", !.result = "MongoError",
                                    !.chunk_deletes = del.chunk_deletes + 1]
              /\ UNCHANGED chunks
    /\ UNCHANGED <<called, rn, dr, fd, files, indexes, nextId, clock, options,
                   never_write, up, dl, returned, removed>>

\* The delete call has returned.
delete_return ==
    /\ del.pc = "done"
    /\ del' = IdleDelete
    /\ UNCHANGED <<called, rn, dr, fd, files, chunks, indexes, nextId, clock,
                   options, never_write, up, dl, returned, removed>>

\* ---------------------------------------------------------------- rename
\* The locals of a rename that is not running.
IdleRename ==
    [pc |-> "idle", id |-> 0, new_filename |-> "", result |-> "", matched_count |-> 0]

\* UpdateResult::matched_count of update_one({"_id": id}, ..)
matched_count(coll, id) == IF id \in DOMAIN coll THEN 1 ELSE 0

\* rename: files.update_one({"_id": id}, {"$set": {"filename": new_filename}}),
\* whose Result<UpdateResult> is what rename returns.
rename ==
    /\ rn.pc = "idle"
    /\ \E id \in Ids, new_filename \in NewFilenames, result \in {"ok", "err"} :
         LET call == [IdleRename EXCEPT !.pc = "done", !.id = id,
                                        !.new_filename = new_filename]
         IN  IF result = "err"
             THEN /\ rn' = [call EXCEPT !.result = "MongoError"]
                  /\ UNCHANGED files
             ELSE /\ files' = update_one_set(files, id, [filename |-> new_filename])
                  /\ rn' = [call EXCEPT !.result = "Ok",
                                        !.matched_count = matched_count(files, id)]
    /\ UNCHANGED <<called, chunks, indexes, nextId, clock, options, never_write,
                   up, dl, del, dr, fd, returned, removed>>

\* The rename call has returned.
rename_return ==
    /\ rn.pc = "done"
    /\ rn' = IdleRename
    /\ UNCHANGED <<called, files, chunks, indexes, nextId, clock, options,
                   never_write, up, dl, del, dr, fd, returned, removed>>

\* ------------------------------------------------------------------ drop
\* The locals of a drop that is not running; drops are the collections a drop
\* request was sent for.
IdleDrop == [pc |-> "idle", h |-> 0, result |-> "", drops |-> <<>>]

\* A drop that leaves the collection in the database.
DropCollectionKeeps(idx, name) == idx

\* Collection::drop: the database without the collection (a collection that
\* does not exist is no error for the driver).
drop_collection(idx, name) == [c \in DOMAIN idx \ {name} |-> idx[c]]

\* drop up to files.drop(None).await?
drop ==
    /\ dr.pc = "idle"
    /\ \E h \in DOMAIN options, result \in {"ok", "err"} :
         LET call == [IdleDrop EXCEPT !.h = h, !.drops = <<file_collection(h)>>]
         IN  IF result = "err"
             THEN /\ dr' = [call EXCEPT !.pc = "done", !.result = "MongoError"]
                  /\ UNCHANGED <<files, indexes, removed>>
             ELSE /\ files' = <<>>
                  /\ indexes' = drop_collection(indexes, file_collection(h))
                  /\ removed' = removed \cup DOMAIN files
                  /\ dr' = [call EXCEPT !.pc = "drop_chunks"]
    /\ UNCHANGED <<called, chunks, nextId, clock, options, never_write, up, dl,
                   del, rn, fd, returned>>

\* drop after the files collection is dropped: chunks.drop(None).await?, Ok(())
drop_chunks ==
    /\ dr.pc = "drop_chunks"
    /\ \E result \in {"ok", "err"} :
         LET call == [dr EXCEPT !.pc = "done",
                                !.drops = Append(dr.drops, chunk_collection(dr.h))]
         IN  IF result = "err"
             THEN /\ dr' = [call EXCEPT !.result = "MongoError"]
                  /\ UNCHANGED <<chunks, indexes>>
             ELSE /\ chunks' = <<>>
                  /\ indexes' = drop_collection(indexes, chunk_collection(dr.h))
                  /\ dr' = [call EXCEPT !.result = "Ok"]
    /\ UNCHANGED <<called, files, nextId, clock, options, never_write, up, dl,
                   del, rn, fd, returned, removed>>

\* The drop call has returned.
drop_return ==
    /\ dr.pc = "done"
    /\ dr' = IdleDrop
    /\ UNCHANGED <<called, files, chunks, indexes, nextId, clock, options,
                   never_write, up, dl, del, rn, fd, returned, removed>>

\* ------------------------------------------------------------------ find
\* GridFSFindOptions: the fields that shape the result.
FindOptions == [limit : Limits, skip : Skips, sort : Sorts]

\* The locals of a find that is not running.
IdleFind ==
    [pc |-> "idle", filter |-> <<>>, options |-> [limit |-> None, skip |-> 0,
                                                  sort |-> None],
     result |-> "", cursor |-> <<>>]

\* The documents of the files collection, each with its _id, in natural order.
documents(coll) ==
    LET ids == DOMAIN coll
        RECURSIVE upto(_)
        upto(i) == IF i = 0 THEN <<>>
                   ELSE IF i \in ids THEN Append(upto(i - 1), [_id |-> i] @@ coll[i])
                   ELSE upto(i - 1)
    IN  upto(MaxFiles)

\* A filter that every document matches.
MatchesAny(doc, filter) == TRUE

\* Whether a document matches a filter: every field of the filter is a field of
\* the document, with the filter's value.
matches(doc, filter) ==
    \A i \in 1..Len(filter) :
        filter[i][1] \in DOMAIN doc /\ doc[filter[i][1]] = filter[i][2]

RECURSIVE InsertBy(_, _, _)
\* A document put in its place, after its equals, in a sequence sorted by a field.
InsertBy(sorted, d, sort) ==
    IF sorted = <<>> THEN <<d>>
    ELSE IF sort.dir * d[sort.f] < sort.dir * Head(sorted)[sort.f]
    THEN <<d>> \o sorted
    ELSE <<Head(sorted)>> \o InsertBy(Tail(sorted), d, sort)

RECURSIVE SortBy(_, _)
\* FindOptions::sort
SortBy(docs, sort) ==
    IF docs = <<>> THEN <<>>
    ELSE InsertBy(SortBy(SubSeq(docs, 1, Len(docs) - 1), sort), docs[Len(docs)], sort)

\* files.find(filter, find_options): the documents of the cursor, which are
\* those that match, sorted, without the first skip, and no more than limit.
files_find(coll, filter, find_options) ==
    LET matched == SelectSeq(documents(coll), LAMBDA d : matches(d, filter))
        sorted == IF find_options.sort = None THEN matched
                  ELSE SortBy(matched, find_options.sort[1])
        skipped == SubSeq(sorted, find_options.skip + 1, Len(sorted))
    IN  IF find_options.limit = None THEN skipped
        ELSE SubSeq(skipped, 1, Min(find_options.limit[1], Len(skipped)))

\* find: FindOptions from the caller's options, then files.find(filter, ..).await
find ==
    /\ fd.pc = "idle"
    /\ \E filter \in Filters, find_options \in FindOptions, result \in {"ok", "err"} :
         LET call == [IdleFind EXCEPT !.pc = "done", !.filter = filter,
                                      !.options = find_options]
         IN  fd' = IF result = "err"
                   THEN [call EXCEPT !.result = "MongoError"]
                   ELSE [call EXCEPT !.result = "Ok",
                                     !.cursor = files_find(files, filter, find_options)]
    /\ UNCHANGED <<called, files, chunks, indexes, nextId, clock, options,
                   never_write, up, dl, del, rn, dr, returned, removed>>

\* The caller is done with the cursor.
find_return ==
    /\ fd.pc = "done"
    /\ fd' = IdleFind
    /\ UNCHANGED <<called, files, chunks, indexes, nextId, clock, options,
                   never_write, up, dl, del, rn, dr, returned, removed>>

\* ----------------------------------------------------------------- clone
\* #[derive(Clone)]: the handle h is made as a copy of the handle g, its options
\* and its never_write those of g at this moment.  upload_from_stream borrows g
\* mutably, so g is not cloned while it uploads.
clone(g, h) ==
    /\ g \in DOMAIN up
    /\ h \notin DOMAIN up
    /\ up[g].pc = "idle"
    /\ options' = options @@ (h :> options[g])
    /\ never_write' = never_write @@ (h :> never_write[g])
    /\ up' = up @@ (h :> IdleUpload)
    /\ called' = called @@ (h :> FALSE)
    /\ UNCHANGED <<files, chunks, indexes, nextId, clock, dl, del, rn, dr, fd,
                   returned, removed>>

\* ------------------------------------------------------------ the system
\* GridFSBucketOptions of a bucket handle.
BucketOptions ==
    [bucket_name : BucketNames, chunk_size_bytes : BucketChunkSizes,
     disable_md5 : BOOLEAN]

\* A fresh database, and GridFSBucket::new for every handle.
Init ==
    /\ files = <<>>
    /\ chunks = <<>>
    /\ indexes = <<>>
    /\ nextId = 1
    /\ clock = 0
    /\ options \in [WriterHandles -> {Some(o) : o \in BucketOptions}]
    /\ never_write = [h \in WriterHandles |-> TRUE]
    /\ up = [h \in WriterHandles |-> IdleUpload]
    /\ dl = IdleDownload
    /\ del = IdleDelete
    /\ rn = IdleRename
    /\ dr = IdleDrop
    /\ fd = IdleFind
    /\ called = [h \in WriterHandles |-> FALSE]
    /\ returned = <<>>
    /\ removed = {}

\* An upload_from_stream call is running, or its result is still looked at.
UploadRunning == \E h \in DOMAIN up : up[h].pc # "idle"
\* A download is running: the call, or the stream it returned.
DownloadRunning == dl.pc # "idle"
\* A delete call is running, or its result is still looked at.
DeleteRunning == del.pc # "idle"

\* One client task: it awaits each call, and reads a stream to its end, before
\* it makes the next call.  The store operations of ensure_file_index succeed.
Next ==
    \/ \E h \in DOMAIN up :
         ~DownloadRunning /\ ~DeleteRunning /\ upload_from_stream(h)
    \/ \E h \in DOMAIN up : ensure_find_one(h)
    \/ \E h \in DOMAIN up : ensure_list_collection_names(h)
    \/ \E h \in DOMAIN up : ensure_create_collection(h)
    \/ \E h \in DOMAIN up : ensure_listIndexes(h)
    \/ \E h \in DOMAIN up : ensure_createIndexes(h)
    \/ \E h \in DOMAIN up : upload_insert_file(h)
    \/ \E h \in DOMAIN up : upload_chunk(h)
    \/ \E h \in DOMAIN up : upload_update(h)
    \/ \E h \in DOMAIN up : upload_fail(h)
    \/ \E h \in DOMAIN up : upload_return(h)
    \/ ~UploadRunning /\ ~DeleteRunning /\ open_download_stream_with_filename
    \/ download_chunks_find
    \/ stream_next
    \/ download_return
    \/ ~UploadRunning /\ ~DownloadRunning /\ delete
    \/ delete_chunks
    \/ delete_return

\* A writer and a deleter on handles of their own: the steps of an upload and
\* of deletes interleave.
NextUploadDelete ==
    \/ \E h \in DOMAIN up : upload_from_stream(h)
    \/ \E h \in DOMAIN up : ensure_find_one(h)
    \/ \E h \in DOMAIN up : ensure_list_collection_names(h)
    \/ \E h \in DOMAIN up : ensure_create_collection(h)
    \/ \E h \in DOMAIN up : ensure_listIndexes(h)
    \/ \E h \in DOMAIN up : ensure_createIndexes(h)
    \/ \E h \in DOMAIN up : upload_insert_file(h)
    \/ \E h \in DOMAIN up : upload_chunk(h)
    \/ \E h \in DOMAIN up : upload_update(h)
    \/ \E h \in DOMAIN up : upload_fail(h)
    \/ \E h \in DOMAIN up : upload_return(h)
    \/ delete
    \/ delete_chunks
    \/ delete_return

\* A writer and a deleter on handles of their own, and a store that answers
\* every operation without an error.
NextUploadDeleteAnswered ==
    \/ \E h \in DOMAIN up : upload_from_stream(h)
    \/ \E h \in DOMAIN up : ensure_find_one(h)
    \/ \E h \in DOMAIN up : ensure_list_collection_names(h)
    \/ \E h \in DOMAIN up : ensure_create_collection(h)
    \/ \E h \in DOMAIN up : ensure_listIndexes(h)
    \/ \E h \in DOMAIN up : ensure_createIndexes(h)
    \/ \E h \in DOMAIN up : upload_insert_file(h)
    \/ \E h \in DOMAIN up : upload_chunk(h)
    \/ \E h \in DOMAIN up : upload_update(h)
    \/ \E h \in DOMAIN up : upload_return(h)
    \/ delete /\ del'.result # "MongoError"
    \/ delete_chunks /\ del'.result # "MongoError"
    \/ delete_return

\* A rename call is running, or its result is still looked at.
RenameRunning == rn.pc # "idle"
\* A drop call is running, or its result is still looked at.
DropRunning == dr.pc # "idle"
\* A find call is running, or its cursor is still looked at.
FindRunning == fd.pc # "idle"
\* No call is running.
Quiet ==
    /\ ~UploadRunning /\ ~DownloadRunning /\ ~DeleteRunning
    /\ ~RenameRunning /\ ~DropRunning /\ ~FindRunning

\* One client task that uploads, deletes, renames, finds and drops, awaiting
\* each call before the next.  The store operations of ensure_file_index succeed.
NextCatalog ==
    \/ \E h \in DOMAIN up : Quiet /\ upload_from_stream(h)
    \/ \E h \in DOMAIN up : ensure_find_one(h)
    \/ \E h \in DOMAIN up : ensure_list_collection_names(h)
    \/ \E h \in DOMAIN up : ensure_create_collection(h)
    \/ \E h \in DOMAIN up : ensure_listIndexes(h)
    \/ \E h \in DOMAIN up : ensure_createIndexes(h)
    \/ \E h \in DOMAIN up : upload_insert_file(h)
    \/ \E h \in DOMAIN up : upload_chunk(h)
    \/ \E h \in DOMAIN up : upload_update(h)
    \/ \E h \in DOMAIN up : upload_return(h)
    \/ Quiet /\ delete
    \/ delete_chunks
    \/ delete_return
    \/ Quiet /\ rename
    \/ rename_return
    \/ Quiet /\ drop
    \/ drop_chunks
    \/ drop_return
    \/ Quiet /\ find
    \/ find_return

\* One client task that uploads through one bucket handle, call after call;
\* every store operation of ensure_file_index and of the upload may fail.
NextProvision ==
    \/ \E h \in DOMAIN up : upload_from_stream(h)
    \/ \E h \in DOMAIN up : ensure_find_one(h)
    \/ \E h \in DOMAIN up : ensure_find_one_err(h)
    \/ \E h \in DOMAIN up : ensure_list_collection_names(h)
    \/ \E h \in DOMAIN up : ensure_create_collection(h)
    \/ \E h \in DOMAIN up : ensure_listIndexes(h)
    \/ \E h \in DOMAIN up : ensure_createIndexes(h)
    \/ \E h \in DOMAIN up : ensure_fail(h)
    \/ \E h \in DOMAIN up : upload_insert_file(h)
    \/ \E h \in DOMAIN up : upload_chunk(h)
    \/ \E h \in DOMAIN up : upload_update(h)
    \/ \E h \in DOMAIN up : upload_fail(h)
    \/ \E h \in DOMAIN up : upload_return(h)

\* A bucket made with GridFSBucket::new(db, None), or with the options of
\* GridFSBucketOptions::default() or of GridFSBucketOptions::builder().build().
InitDefaults ==
    /\ files = <<>>
    /\ chunks = <<>>
    /\ indexes = <<>>
    /\ nextId = 1
    /\ clock = 0
    /\ options \in [WriterHandles -> {None, Some(GridFSBucketOptions_default),
                                       Some(GridFSBucketOptions_builder_build)}]
    /\ never_write = [h \in WriterHandles |-> TRUE]
    /\ up = [h \in WriterHandles |-> IdleUpload]
    /\ dl = IdleDownload
    /\ del = IdleDelete
    /\ rn = IdleRename
    /\ dr = IdleDrop
    /\ fd = IdleFind
    /\ called = [h \in WriterHandles |-> FALSE]
    /\ returned = <<>>
    /\ removed = {}

\* Two handles on one bucket: a GridFSBucket and its clone, or two values made
\* by GridFSBucket::new with the same options.
ConcurrentHandles == {1, 2}

\* A fresh database and two handles on the same bucket.
InitConcurrent ==
    /\ files = <<>>
    /\ chunks = <<>>
    /\ indexes = <<>>
    /\ nextId = 1
    /\ clock = 0
    /\ \E o \in BucketOptions : options = [h \in ConcurrentHandles |-> Some(o)]
    /\ never_write = [h \in ConcurrentHandles |-> TRUE]
    /\ up = [h \in ConcurrentHandles |-> IdleUpload]
    /\ dl = IdleDownload
    /\ del = IdleDelete
    /\ rn = IdleRename
    /\ dr = IdleDrop
    /\ fd = IdleFind
    /\ called = [h \in ConcurrentHandles |-> FALSE]
    /\ returned = <<>>
    /\ removed = {}

\* Two tasks that upload one file each, each through its handle: the store
\* operations of their calls interleave.  The store answers every operation;
\* create_collection answers with an error for a collection that exists.
NextConcurrent ==
    \/ \E h \in DOMAIN up : ~called[h] /\ upload_from_stream(h)
    \/ \E h \in DOMAIN up : ensure_find_one(h)
    \/ \E h \in DOMAIN up : ensure_list_collection_names(h)
    \/ \E h \in DOMAIN up : ensure_create_collection(h)
    \/ \E h \in DOMAIN up : ensure_listIndexes(h)
    \/ \E h \in DOMAIN up : ensure_createIndexes(h)
    \/ \E h \in DOMAIN up : upload_insert_file(h)
    \/ \E h \in DOMAIN up : upload_chunk(h)
    \/ \E h \in DOMAIN up : upload_update(h)
    \/ \E h \in DOMAIN up : upload_return(h)

\* Keys of indexes a collection may have before the first upload, on the
\* fields f1, f2 the provisioning step looks at: the key GridFS asks for with
\* its 1 as Int32 or as Double, and keys that are not that key.
IndexKeys(f1, f2) ==
    {<<[f |-> f1, val |-> a], [f |-> f2, val |-> b]>> :
         a, b \in {I32(1), F64(100000)}}
    \cup {<<[f |-> f1, val |-> I32(1)], [f |-> f2, val |-> I32(-1)]>>,
          <<[f |-> f1, val |-> F64(100005)], [f |-> f2, val |-> F64(100000)]>>,
          <<[f |-> f1, val |-> F64(100010)], [f |-> f2, val |-> F64(100000)]>>,
          <<[f |-> f2, val |-> I32(1)], [f |-> f1, val |-> I32(1)]>>,
          <<[f |-> f1, val |-> I32(1)], [f |-> f2, val |-> I32(1)],
            [f |-> "_id", val |-> I32(1)]>>,
          <<[f |-> f1, val |-> I32(1)]>>}

\* What a database holds for a collection before the first upload: nothing, or
\* the collection with its _id index and at most one index more.
ExistingCollections(name, f1, f2) ==
    {<<>>, name :> {IdIndex}}
    \cup {name :> {IdIndex, [name |-> "existing", key |-> k]} :
             k \in IndexKeys(f1, f2)}

\* A database whose collections fs.files and fs.chunks are empty or absent,
\* with indexes made by somebody else, and a bucket of default options.
InitIndexes ==
    /\ files = <<>>
    /\ chunks = <<>>
    /\ \E fi \in ExistingCollections("fs.files", "filename", "uploadDate"),
          ci \in ExistingCollections("fs.chunks", "files_id", "n") :
          indexes = fi @@ ci
    /\ nextId = 1
    /\ clock = 0
    /\ options = [h \in WriterHandles |-> Some(GridFSBucketOptions_default)]
    /\ never_write = [h \in WriterHandles |-> TRUE]
    /\ up = [h \in WriterHandles |-> IdleUpload]
    /\ dl = IdleDownload
    /\ del = IdleDelete
    /\ rn = IdleRename
    /\ dr = IdleDrop
    /\ fd = IdleFind
    /\ called = [h \in WriterHandles |-> FALSE]
    /\ returned = <<>>
    /\ removed = {}

\* The first upload through a bucket handle; the store answers every operation.
NextIndexes ==
    \/ \E h \in DOMAIN up : ~called[h] /\ upload_from_stream(h)
    \/ \E h \in DOMAIN up : ensure_find_one(h)
    \/ \E h \in DOMAIN up : ensure_list_collection_names(h)
    \/ \E h \in DOMAIN up : ensure_create_collection(h)
    \/ \E h \in DOMAIN up : ensure_listIndexes(h)
    \/ \E h \in DOMAIN up : ensure_createIndexes(h)
    \/ \E h \in DOMAIN up : upload_insert_file(h)
    \/ \E h \in DOMAIN up : upload_chunk(h)
    \/ \E h \in DOMAIN up : upload_update(h)
    \/ \E h \in DOMAIN up : upload_return(h)

\* One client task with a bucket made by GridFSBucket::new, which it clones at
\* some moment, and uploads through the bucket and through the clone, call
\* after call.
NextClone ==
    \/ \E h \in DOMAIN up : ~UploadRunning /\ upload_from_stream(h)
    \/ \E h \in DOMAIN up : ensure_find_one(h)
    \/ \E h \in DOMAIN up : ensure_list_collection_names(h)
    \/ \E h \in DOMAIN up : ensure_create_collection(h)
    \/ \E h \in DOMAIN up : ensure_listIndexes(h)
    \/ \E h \in DOMAIN up : ensure_createIndexes(h)
    \/ \E h \in DOMAIN up : upload_insert_file(h)
    \/ \E h \in DOMAIN up : upload_chunk(h)
    \/ \E h \in DOMAIN up : upload_update(h)
    \/ \E h \in DOMAIN up : upload_return(h)
    \/ \E g \in DOMAIN up, h \in ConcurrentHandles : ~UploadRunning /\ clone(g, h)

\* A writer and a reader on handles of their own: the steps of an upload and of
\* a download interleave.  The store answers every operation of the upload.
NextReadWrite ==
    \/ \E h \in DOMAIN up : upload_from_stream(h)
    \/ \E h \in DOMAIN up : ensure_find_one(h)
    \/ \E h \in DOMAIN up : ensure_list_collection_names(h)
    \/ \E h \in DOMAIN up : ensure_create_collection(h)
    \/ \E h \in DOMAIN up : ensure_listIndexes(h)
    \/ \E h \in DOMAIN up : ensure_createIndexes(h)
    \/ \E h \in DOMAIN up : upload_insert_file(h)
    \/ \E h \in DOMAIN up : upload_chunk(h)
    \/ \E h \in DOMAIN up : upload_update(h)
    \/ \E h \in DOMAIN up : upload_return(h)
    \/ open_download_stream_with_filename
    \/ download_chunks_find
    \/ stream_next
    \/ download_return

\* One client task that uploads and downloads, awaiting each call before the
\* next, and another that renames at any time.  The store operations of the
\* upload succeed; the lookups of the download and the rename may fail.
NextRenameRead ==
    \/ \E h \in DOMAIN up : ~DownloadRunning /\ upload_from_stream(h)
    \/ \E h \in DOMAIN up : ensure_find_one(h)
    \/ \E h \in DOMAIN up : ensure_list_collection_names(h)
    \/ \E h \in DOMAIN up : ensure_create_collection(h)
    \/ \E h \in DOMAIN up : ensure_listIndexes(h)
    \/ \E h \in DOMAIN up : ensure_createIndexes(h)
    \/ \E h \in DOMAIN up : upload_insert_file(h)
    \/ \E h \in DOMAIN up : upload_chunk(h)
    \/ \E h \in DOMAIN up : upload_update(h)
    \/ \E h \in DOMAIN up : upload_return(h)
    \/ ~UploadRunning /\ open_download_stream_with_filename
    \/ download_chunks_find
    \/ stream_next
    \/ download_return
    \/ rename
    \/ rename_return

\* One client task that uploads through one bucket handle, call after call,
\* with metadata and a progress_tick in the options of some calls; the inserts,
\* the reads and the final update may fail.
NextExtras ==
    \/ \E h \in DOMAIN up : upload_from_stream_extras(h)
    \/ \E h \in DOMAIN up : ensure_find_one(h)
    \/ \E h \in DOMAIN up : ensure_list_collection_names(h)
    \/ \E h \in DOMAIN up : ensure_create_collection(h)
    \/ \E h \in DOMAIN up : ensure_listIndexes(h)
    \/ \E h \in DOMAIN up : ensure_createIndexes(h)
    \/ \E h \in DOMAIN up : upload_insert_file(h)
    \/ \E h \in DOMAIN up : upload_chunk(h)
    \/ \E h \in DOMAIN up : upload_update(h)
    \/ \E h \in DOMAIN up : upload_fail(h)
    \/ \E h \in DOMAIN up : upload_return(h)

\* Uploads, call after call, through a bucket of default options.
NextDefaults ==
    \/ \E h \in DOMAIN up : upload_from_stream(h)
    \/ \E h \in DOMAIN up : ensure_find_one(h)
    \/ \E h \in DOMAIN up : ensure_list_collection_names(h)
    \/ \E h \in DOMAIN up : ensure_create_collection(h)
    \/ \E h \in DOMAIN up : ensure_listIndexes(h)
    \/ \E h \in DOMAIN up : ensure_createIndexes(h)
    \/ \E h \in DOMAIN up : upload_insert_file(h)
    \/ \E h \in DOMAIN up : upload_chunk(h)
    \/ \E h \in DOMAIN up : upload_update(h)
    \/ \E h \in DOMAIN up : upload_return(h)

Spec == Init /\ [][Next]_vars

SpecUploadDelete == Init /\ [][NextUploadDelete]_vars

SpecCatalog == Init /\ [][NextCatalog]_vars

SpecProvision == Init /\ [][NextProvision]_vars

SpecDefaults == InitDefaults /\ [][NextDefaults]_vars

SpecConcurrent == InitConcurrent /\ [][NextConcurrent]_vars

SpecIndexes == InitIndexes /\ [][NextIndexes]_vars

SpecClone == Init /\ [][NextClone]_vars

SpecReadWrite == Init /\ [][NextReadWrite]_vars

\* SpecProvision with a task that is run to its end: the store and the source
\* answer every call, so a step that the call can take is taken.
SpecProvisionFair == SpecProvision /\ WF_vars(NextProvision)

SpecUploadDeleteAnswered == Init /\ [][NextUploadDeleteAnswered]_vars

SpecExtras == Init /\ [][NextExtras]_vars

SpecRenameRead == Init /\ [][NextRenameRead]_vars

\* =============================================================== claims
\* The chunk documents of a file, in natural order.
ChunksOf(id) == SelectSeq(chunks, LAMBDA d : d.files_id = id)

\* The payloads of a sequence of chunk documents.
Payloads(docs) == [i \in 1..Len(docs) |-> docs[i].data]

\* ceil(a / b) for b > 0
CeilDiv(a, b) == (a + b - 1) \div b

\* C1: round trip.  A download opened after the upload of its id has returned Ok,
\* the file not deleted since, finds the file document, and, for a chunk size
\* C > 0, the buffers of its stream, concatenated in the order they are yielded
\* up to the end of the stream, are the bytes B of the upload's source.
RoundTrip ==
    (dl.pc \in {"done", "ended"} /\ dl.after_ok /\ dl.id \notin removed) =>
        /\ dl.id \in DOMAIN files
        /\ dl.result # "FileNotFound"
        /\ (dl.pc = "ended" /\ files[dl.id].chunkSize > 0) =>
               Concat(dl.out) = returned[dl.id]

\* A stream of two buffers read to its end, for a source of three bytes.
RoundTripWitness ==
    /\ dl.pc = "ended"
    /\ dl.after_ok
    /\ dl.id \notin removed
    /\ Len(dl.out) = 2
    /\ Len(returned[dl.id]) = 3

\* The digest, as the md5 field holds it, of a sequence of bytes.
Digest(bytes) == LowerHex(Md5Finalize(Md5Update(Md5Default, bytes)))

\* The sequence numbers of a sequence of chunk documents.
SequenceNumbers(docs) == [i \in 1..Len(docs) |-> docs[i].n]

\* C2: chunk count.  For a chunk size C > 0, whatever number of bytes each read
\* returns, a completed upload of B leaves ceil(len(B)/C) chunk documents of its
\* id, and none when B is empty.
ChunkCount ==
    \A h \in DOMAIN up :
        (up[h].pc = "done" /\ up[h].chunk_size > 0) =>
            Len(ChunksOf(up[h].files_id)) =
                IF Len(up[h].B) = 0 THEN 0
                ELSE CeilDiv(Len(up[h].B), up[h].chunk_size)

\* C3: chunk lengths.  For a chunk size C > 0, whatever number of bytes each read
\* returns, after a completed upload of B every chunk but the one of the highest
\* sequence number holds C bytes, and the last holds len(B) mod C bytes, or C
\* when len(B) is a multiple of C.
ChunkLengths ==
    \A h \in DOMAIN up :
        (up[h].pc = "done" /\ up[h].chunk_size > 0) =>
            LET cs == SortByN(ChunksOf(up[h].files_id))
                C == up[h].chunk_size
                k == Len(cs)
            IN  /\ \A i \in 1..(k - 1) : Len(cs[i].data) = C
                /\ k > 0 =>
                     Len(cs[k].data) = IF Len(up[h].B) % C = 0 THEN C
                                       ELSE Len(up[h].B) % C

\* The chunk documents of every id are numbered without gap or duplicate, in
\* the order of their insertion, from 0 unless a delete of the id has run, and
\* up to the counter of the upload that writes them.
ContiguousNumbers ==
    \A id \in Ids :
        LET ns == SequenceNumbers(ChunksOf(id))
        IN  /\ \A i \in 1..(Len(ns) - 1) : ns[i + 1] = ns[i] + 1
            /\ (Len(ns) > 0 /\ id \notin removed) => ns[1] = 0
            /\ \A h \in DOMAIN up :
                 (up[h].files_id = id /\ up[h].pc \in {"read", "update", "done"}) =>
                     /\ Len(ns) > 0 => ns[Len(ns)] = up[h].n - 1
                     /\ id \notin removed => Len(ns) = up[h].n

\* A step inserts at most one chunk document, at the end of what its upload has
\* written, with the number the upload's counter had, and moves the counter by one.
OneChunkAtATime ==
    \/ chunks' = chunks
    \/ Len(chunks') < Len(chunks)
    \/ \E h \in DOMAIN up :
         /\ up[h].pc = "read"
         /\ chunks' = Append(chunks, chunk_document(up[h].files_id, up[h].n,
                                                    chunks'[Len(chunks')].data))
         /\ up'[h].n = up[h].n + 1
         /\ \A d \in {chunks[i] : i \in 1..Len(chunks)} :
              d.files_id = up[h].files_id => d.n < up[h].n

\* C4: sequence numbers.  In every reachable state, the middle of an upload and
\* a delete running beside it included, the chunk documents an upload has written
\* for an id are numbered 0, 1, ..., k-1 with no gap and no duplicate, and every
\* step inserts at most one of them, with a number above all those before it.
SequenceNumberInvariant == [] ContiguousNumbers /\ [][OneChunkAtATime]_vars

\* The middle of an upload that has inserted two chunks and has bytes left.
SequenceNumberWitness ==
    \E h \in DOMAIN up :
        /\ up[h].pc = "read"
        /\ up[h].source # <<>>
        /\ SequenceNumbers(ChunksOf(up[h].files_id)) = <<0, 1>>

\* The file document of a completed upload has the length len(B), which is the
\* sum of the lengths of the payloads of the chunks of its id, and an uploadDate.
LengthOfSource(h) ==
    LET id == up[h].files_id
    IN  /\ id \in DOMAIN files
        /\ "length" \in DOMAIN files[id]
        /\ files[id].length = Len(up[h].B)
        /\ files[id].length = Len(Concat(Payloads(ChunksOf(id))))
        /\ "uploadDate" \in DOMAIN files[id]

\* C5 as the specification states it: for every chunk size, when
\* upload_from_stream returns Ok(id) the length field is len(B).
FinalizedLengthAnyChunkSize ==
    \A h \in DOMAIN up : up[h].pc = "done" => LengthOfSource(h)

\* C5: finalized length.  When upload_from_stream returns Ok(id), no other
\* operation running on the id, for a chunk size C > 0 the length field of the
\* file document is len(B) and is the sum of the payload lengths of the chunks of
\* id; for every chunk size it is that sum, and length and uploadDate are set
\* together: no file document has one without the other.
FinalizedLength ==
    /\ \A h \in DOMAIN up :
         (up[h].pc = "done" /\ up[h].chunk_size > 0) => LengthOfSource(h)
    /\ \A h \in DOMAIN up :
         up[h].pc = "done" =>
             /\ up[h].files_id \in DOMAIN files
             /\ "length" \in DOMAIN files[up[h].files_id]
             /\ files[up[h].files_id].length =
                    Len(Concat(Payloads(ChunksOf(up[h].files_id))))
    /\ \A id \in DOMAIN files :
         ("length" \in DOMAIN files[id]) <=> ("uploadDate" \in DOMAIN files[id])

\* A completed upload of three bytes in two chunks, its length 3.
FinalizedLengthWitness ==
    \E h \in DOMAIN up :
        /\ up[h].pc = "done"
        /\ up[h].chunk_size = 2
        /\ Len(up[h].B) = 3
        /\ Len(ChunksOf(up[h].files_id)) = 2
        /\ files[up[h].files_id].length = 3

\* The md5 field of the file document of a completed upload is there exactly
\* when the bucket's disable_md5 is false, and is then the digest of the payloads
\* of the chunks of the id, concatenated in the order of their numbers.
ChecksumOfChunks(h) ==
    LET id == up[h].files_id
    IN  /\ id \in DOMAIN files
        /\ ("md5" \in DOMAIN files[id]) <=> ~dboptions(h).disable_md5
        /\ "md5" \in DOMAIN files[id] =>
               files[id].md5 = Digest(Concat(Payloads(SortByN(ChunksOf(id)))))

\* C6 as the specification states it: for every chunk size the md5 field, when
\* present, is the digest of the chunks' bytes, that is of B.
ChecksumOfSource ==
    \A h \in DOMAIN up :
        up[h].pc = "done" =>
            /\ ChecksumOfChunks(h)
            /\ "md5" \in DOMAIN files[up[h].files_id] =>
                   files[up[h].files_id].md5 = Digest(up[h].B)

\* C6: checksum presence.  After a completed upload the file document has an md5
\* field if and only if the bucket's disable_md5 is false; when present it is the
\* digest of the bytes of the file's chunk documents concatenated in sequence
\* order, which for a chunk size C > 0 is the digest of B.
ChecksumPresence ==
    \A h \in DOMAIN up :
        up[h].pc = "done" =>
            /\ ChecksumOfChunks(h)
            /\ ("md5" \in DOMAIN files[up[h].files_id] /\ up[h].chunk_size > 0) =>
                   files[up[h].files_id].md5 = Digest(up[h].B)

\* A completed upload of three bytes in two chunks with an md5 field, and a
\* completed upload without one.
ChecksumPresenceWitness ==
    \E h \in DOMAIN up :
        /\ up[h].pc = "done"
        /\ Len(up[h].B) = 3
        /\ Len(ChunksOf(up[h].files_id)) = 2
        /\ "md5" \in DOMAIN files[up[h].files_id]
        /\ files[up[h].files_id].md5 = Digest(up[h].B)

\* C7: empty-chunk safety.  In every reachable state no chunk document has a
\* payload of zero bytes, and the upload of a source of zero bytes completes with
\* a file document of length 0 and no chunk document of its id.
EmptyChunkSafety ==
    /\ \A i \in 1..Len(chunks) : Len(chunks[i].data) > 0
    /\ \A h \in DOMAIN up :
         (up[h].pc = "done" /\ up[h].B = <<>>) =>
             /\ up[h].files_id \in DOMAIN files
             /\ "length" \in DOMAIN files[up[h].files_id]
             /\ files[up[h].files_id].length = 0
             /\ ChunksOf(up[h].files_id) = <<>>

\* A completed upload of a source of zero bytes with a chunk size above 0,
\* beside the chunk of another file.
EmptyChunkWitness ==
    \E h \in DOMAIN up :
        /\ up[h].pc = "done"
        /\ up[h].B = <<>>
        /\ up[h].chunk_size > 0
        /\ files[up[h].files_id].length = 0
        /\ chunks # <<>>

\* The step that opens a download of an id without file document, the store
\* answering, returns FileNotFound at once, no find on the chunks collection made.
NotFoundAtOnce ==
    (dl.pc = "idle" /\ dl'.pc # "idle" /\ dl'.id \notin DOMAIN files
                    /\ dl'.result # "MongoError") =>
        /\ dl'.pc = "done"
        /\ dl'.result = "FileNotFound"
        /\ dl'.chunk_finds = 0

\* A download that returned FileNotFound has made no find on the chunks
\* collection, and one that made it had found the file document.
NoChunksQuery ==
    /\ dl.result = "FileNotFound" =>
           (dl.pc = "done" /\ dl.chunk_finds = 0 /\ dl.id \notin DOMAIN files)
    /\ dl.chunk_finds > 0 => dl.id \in DOMAIN files

\* C8: open_download_stream on an id for which no file document exists returns
\* FileNotFound in the step of the lookup and makes no query on the chunks
\* collection.
DownloadFileNotFound == [] NoChunksQuery /\ [][NotFoundAtOnce]_vars

\* FileNotFound for the id of a deleted file while chunks of another file are
\* stored.
DownloadFileNotFoundWitness ==
    /\ dl.result = "FileNotFound"
    /\ dl.id \in removed
    /\ dl.chunk_finds = 0
    /\ chunks # <<>>

\* C9: download projection.  The stream of an existing id yields one buffer for
\* every chunk document of that files_id and no other: the k-th buffer is the
\* payload of the chunk that has k-1 chunks of the id with a smaller n, and after
\* the last of them the stream ends.
DownloadProjection ==
    dl.pc \in {"streaming", "ended"} =>
        LET cs == ChunksOf(dl.id)
        IN  /\ dl.id \in DOMAIN files
            /\ Len(dl.out) + Len(dl.cursor) = Len(cs)
            /\ dl.pc = "ended" => dl.cursor = <<>>
            /\ \A k \in 1..Len(dl.out) :
                 \E i \in 1..Len(cs) :
                     /\ dl.out[k] = cs[i].data
                     /\ Cardinality({j \in 1..Len(cs) : cs[j].n < cs[i].n}) = k - 1

\* A stream that has ended after two buffers, a chunk of another file stored.
DownloadProjectionWitness ==
    /\ dl.pc = "ended"
    /\ Len(dl.out) = 2
    /\ Len(ChunksOf(dl.id)) = 2
    /\ Len(chunks) = 3

\* The step of a delete of an id without file document, the store answering,
\* returns FileNotFound, makes no delete on the chunks collection and leaves
\* both collections as they are.
DeleteNotFoundStep ==
    (del.pc = "idle" /\ del'.pc # "idle" /\ del'.id \notin DOMAIN files
                     /\ del'.result # "MongoError") =>
        /\ del'.pc = "done"
        /\ del'.result = "FileNotFound"
        /\ del'.chunk_deletes = 0
        /\ files' = files
        /\ chunks' = chunks

\* A delete that returned FileNotFound has made no delete on the chunks collection.
NoChunksDelete ==
    del.result = "FileNotFound" => (del.pc = "done" /\ del.chunk_deletes = 0)

\* C10: delete(id) when no file document has the id returns FileNotFound, makes
\* no delete on the chunks collection, and leaves the files and the chunks
\* collection unchanged.
DeleteFileNotFound == [] NoChunksDelete /\ [][DeleteNotFoundStep]_vars

\* FileNotFound for an id of which chunk documents are stored.
DeleteFileNotFoundWitness ==
    /\ del.result = "FileNotFound"
    /\ del.chunk_deletes = 0
    /\ ChunksOf(del.id) # <<>>

\* The step of a delete that finds the file document of its id removes that
\* document and no other, and leaves the chunks; the step of its delete_many
\* removes the chunks of the id and no other, and leaves the files.
DeleteKnownIdStep ==
    /\ (del.pc = "idle" /\ del'.pc # "idle" /\ del'.id \in DOMAIN files
                        /\ del'.result # "MongoError") =>
           /\ del'.pc = "delete_many"
           /\ DOMAIN files' = DOMAIN files \ {del'.id}
           /\ \A i \in DOMAIN files' : files'[i] = files[i]
           /\ chunks' = chunks
    /\ (del.pc = "delete_many" /\ del'.result = "Ok") =>
           /\ files' = files
           /\ chunks' = SelectSeq(chunks, LAMBDA d : d.files_id # del.id)

\* After a delete that returned Ok no file document and no chunk document of
\* its id is left, and it has made one delete on the chunks collection.
DeleteKnownIdDone ==
    (del.pc = "done" /\ del.result = "Ok") =>
        /\ del.id \notin DOMAIN files
        /\ del.id \in removed
        /\ \A i \in 1..Len(chunks) : chunks[i].files_id # del.id
        /\ del.chunk_deletes = 1

\* C11: delete(id) on an id whose file document exists, when it returns Ok, has
\* removed exactly one file document, the one of id, and every chunk document of
\* id, however many: afterwards no file document and no chunk document of id
\* remains, and the documents of other ids are as before.
DeleteKnownId == [] DeleteKnownIdDone /\ [][DeleteKnownIdStep]_vars

\* A delete that returned Ok for a file of two bytes or more, the chunks of
\* another file still stored.
DeleteKnownIdWitness ==
    /\ del.pc = "done"
    /\ del.result = "Ok"
    /\ del.id \in DOMAIN returned
    /\ Len(returned[del.id]) >= 2
    /\ chunks # <<>>
    /\ files # <<>>

\* The step of a rename that returns Ok.
RenameOkStep == rn.pc = "idle" /\ rn'.pc = "done" /\ rn'.result = "Ok"

\* C12: rename(id, new_filename) on an existing file sets the filename of the
\* file document of id to new_filename and leaves every other field of that
\* document, every other file document and every chunk document as they were.
RenameFrame ==
    [][(RenameOkStep /\ rn'.id \in DOMAIN files) =>
          /\ DOMAIN files' = DOMAIN files
          /\ files'[rn'.id].filename = rn'.new_filename
          /\ DOMAIN files'[rn'.id] = DOMAIN files[rn'.id]
          /\ \A f \in DOMAIN files[rn'.id] \ {"filename"} :
                 files'[rn'.id][f] = files[rn'.id][f]
          /\ \A i \in DOMAIN files \ {rn'.id} : files'[i] = files[i]
          /\ chunks' = chunks
          /\ rn'.matched_count = 1]_vars

\* A finalized file with md5 and chunks that was renamed, beside another file.
RenameFrameWitness ==
    /\ rn.pc = "done"
    /\ rn.result = "Ok"
    /\ rn.new_filename = "renamed.txt"
    /\ rn.id \in DOMAIN files
    /\ files[rn.id].filename = "renamed.txt"
    /\ {"chunkSize", "length", "uploadDate", "md5"} \subseteq DOMAIN files[rn.id]
    /\ Cardinality(DOMAIN files) = 2
    /\ \E i \in 1..Len(chunks) : chunks[i].files_id = rn.id

\* C13: rename(id, new_filename) on an id without file document returns Ok with
\* a matched count of zero, and creates or modifies no document; no rename ever
\* returns FileNotFound.
RenameUnknownId ==
    /\ [] (rn.result # "FileNotFound")
    /\ [][(rn.pc = "idle" /\ rn'.pc = "done" /\ rn'.id \notin DOMAIN files
                          /\ rn'.result # "MongoError") =>
             /\ rn'.result = "Ok"
             /\ rn'.matched_count = 0
             /\ files' = files
             /\ chunks' = chunks]_vars

\* A rename of the id of a deleted file that returned Ok, a file and its chunks
\* stored beside.
RenameUnknownIdWitness ==
    /\ rn.pc = "done"
    /\ rn.result = "Ok"
    /\ rn.matched_count = 0
    /\ rn.id \in removed
    /\ rn.id \notin DOMAIN files
    /\ files # <<>>
    /\ chunks # <<>>

\* The two collections of the bucket of the drop call.
BucketCollections(h) == {file_collection(h), chunk_collection(h)}

\* C14 as the specification states it: a drop that has returned, with whatever
\* outcome of its first request, has sent a drop request for both collections.
DropBothWhateverOutcome ==
    dr.pc = "done" =>
        dr.drops = <<file_collection(dr.h), chunk_collection(dr.h)>>

\* What holds of a drop call while it runs and when it has returned.
DropRequests ==
    /\ dr.pc = "drop_chunks" => dr.drops = <<file_collection(dr.h)>>
    /\ (dr.pc = "done" /\ dr.result = "Ok") =>
           /\ dr.drops = <<file_collection(dr.h), chunk_collection(dr.h)>>
           /\ BucketCollections(dr.h) \cap DOMAIN indexes = {}
           /\ files = <<>>
           /\ chunks = <<>>
    /\ (dr.pc = "done" /\ dr.result # "Ok") =>
           /\ dr.result = "MongoError"
           /\ dr.drops \in {<<file_collection(dr.h)>>,
                            <<file_collection(dr.h), chunk_collection(dr.h)>>}

\* The first step of a drop sends the drop request for the files collection
\* whether the collection exists or not, and when that request fails the call
\* returns its error at once, the chunks collection as it was.
DropFirstStep ==
    (dr.pc = "idle" /\ dr'.pc # "idle") =>
        /\ dr'.drops = <<file_collection(dr'.h)>>
        /\ chunks' = chunks
        /\ dr'.pc = "done" =>
               (dr'.result = "MongoError" /\ files' = files /\ indexes' = indexes)

\* C14: drop() sends a drop request for '<prefix>.files' without any existence
\* check and, when that request succeeds, one for '<prefix>.chunks'; when the
\* first request fails drop returns the error and sends no request for the chunks
\* collection.  After drop() returns Ok neither collection exists.
DropBoth == [] DropRequests /\ [][DropFirstStep]_vars

\* A drop that returned Ok on a bucket that held two files and chunks.
DropBothWitness ==
    /\ dr.pc = "done"
    /\ dr.result = "Ok"
    /\ Len(dr.drops) = 2
    /\ Cardinality(removed) = 2
    /\ DOMAIN returned = removed

\* The ids of the file documents whose filename is x.
Named(x) == {i \in DOMAIN files : files[i].filename = x}

\* Whether the document of id i comes before that of id j in the order the
\* caller's sort asks for: by _id, ascending or descending, and the natural
\* order, which is that of insertion, without a sort.
Before(sort, i, j) == IF sort # None /\ sort[1].dir = -1 THEN i > j ELSE i < j

\* The cursor of a find that returned Ok for a filter {filename: x}: its
\* documents are file documents of filename x as the collection holds them, each
\* once, the k-th being the one that skip + k - 1 of them come before, and they
\* are all of them but the first skip, as far as limit allows.
FindCursor ==
    (fd.pc = "done" /\ fd.result = "Ok") =>
        LET x == fd.filter[1][2]
            o == fd.options
            left == Max(0, Cardinality(Named(x)) - o.skip)
        IN  /\ fd.filter[1][1] = "filename"
            /\ Len(fd.cursor) = IF o.limit = None THEN left
                                ELSE Min(o.limit[1], left)
            /\ \A k \in 1..Len(fd.cursor) :
                 LET id == fd.cursor[k]._id
                 IN  /\ id \in Named(x)
                     /\ fd.cursor[k] = [_id |-> id] @@ files[id]
                     /\ Cardinality({j \in Named(x) : Before(o.sort, j, id)})
                            = o.skip + k - 1

\* C15: find(filter, options) gives the filter as it is to the files collection:
\* for a filter {filename: x} the cursor holds exactly the file documents whose
\* filename is x, none when there is none, after the caller's sort, then skip,
\* then limit; and find changes no document.
FindByFilename ==
    /\ [] FindCursor
    /\ [][(fd.pc = "idle" /\ fd'.pc # "idle") =>
              (files' = files /\ chunks' = chunks /\ indexes' = indexes)]_vars

\* A find sorted by descending _id with a skip of 1 that returns the older of
\* two files of the filename it asks for.
FindByFilenameWitness ==
    /\ fd.pc = "done"
    /\ fd.result = "Ok"
    /\ fd.options.skip = 1
    /\ fd.options.sort = Some([f |-> "_id", dir |-> -1])
    /\ Cardinality(DOMAIN files) = 2
    /\ Len(fd.cursor) = 1
    /\ fd.cursor[1]._id = 1

\* Whether a value of an index key says ascending: the integer 1 or the float 1.
IsOne(val) == (val.t = "i32" /\ val.v = 1) \/ (val.t = "f64" /\ val.v = 100000)

\* Whether a collection exists and has an ascending index on the fields f1, f2.
HasAscendingIndex(name, f1, f2) ==
    /\ name \in DOMAIN indexes
    /\ \E index \in indexes[name] :
         /\ Len(index.key) = 2
         /\ index.key[1].f = f1 /\ IsOne(index.key[1].val)
         /\ index.key[2].f = f2 /\ IsOne(index.key[2].val)

\* The two indexes GridFS asks for are there.
BothIndexes(h) ==
    /\ HasAscendingIndex(file_collection(h), "filename", "uploadDate")
    /\ HasAscendingIndex(chunk_collection(h), "files_id", "n")

ProvisioningPcs ==
    {"find_one", "list_collection_names", "create_collection", "listIndexes",
     "createIndexes"}

\* A call is at a store operation of ensure_file_index only while never_write
\* is true.
ProvisioningOnlyWhenNeverWrite ==
    \A h \in DOMAIN up : up[h].pc \in ProvisioningPcs => never_write[h]

\* A call whose ensure_file_index reaches its end sets never_write to false;
\* from then on never_write stays false, no call of the handle comes to a store
\* operation of ensure_file_index, and the indexes of the database change only
\* by the collection that an insert creates.
ProvisionedStep ==
    \A h \in DOMAIN up :
        /\ (up[h].pc \in ProvisioningPcs /\ up'[h].pc = "insert_file") =>
               ~never_write'[h]
        /\ ~never_write[h] =>
               /\ ~never_write'[h]
               /\ up'[h].pc \notin ProvisioningPcs
               /\ indexes' # indexes =>
                      /\ up[h].pc \in {"insert_file", "read"}
                      /\ \A c \in DOMAIN indexes :
                             c \in DOMAIN indexes' /\ indexes'[c] = indexes[c]
                      /\ \A c \in DOMAIN indexes' \ DOMAIN indexes :
                             indexes'[c] = {IdIndex}

\* C17: provision at most once.  Across the upload_from_stream calls on one
\* bucket instance, after the first call whose provisioning step has completed
\* no later call sends a provisioning operation to the store: no probe, no
\* list-collection-names, create-collection, listIndexes or createIndexes.
ProvisionAtMostOnce ==
    [] ProvisioningOnlyWhenNeverWrite /\ [][ProvisionedStep]_vars

\* A later call on a handle that has provisioned both indexes: it is at the
\* insert of its file document, never_write false.
ProvisionAtMostOnceWitness ==
    \E h \in DOMAIN up :
        /\ up[h].pc = "insert_file"
        /\ ~up[h].first
        /\ ~never_write[h]
        /\ files # <<>>
        /\ BothIndexes(h)

\* An upload without chunk size of its own uses a chunk size of c bytes: it is
\* the size of its read buffer and the chunkSize of its file document.
UsesChunkSize(h, c) ==
    /\ up[h].chunk_size = c
    /\ up[h].pc \in {"read", "update", "done"} =>
           /\ up[h].vecbuf.len = c
           /\ up[h].files_id \in DOMAIN files
           /\ files[up[h].files_id].chunkSize = c

\* C18 as the specification states it: an upload without chunk size of its own
\* on a bucket of default options uses 262144 bytes.
DefaultChunkSize262144 ==
    \A h \in DOMAIN up :
        (up[h].pc # "idle" /\ up[h].chunk_size_bytes = None) =>
            UsesChunkSize(h, 262144)

\* C18: default chunk size.  An upload without per-call chunk size on a bucket
\* built with default options uses an effective chunk size of 261120 bytes
\* (255 KiB), and records that value as chunkSize in the file document.
DefaultChunkSize ==
    \A h \in DOMAIN up :
        (up[h].pc # "idle" /\ up[h].chunk_size_bytes = None) =>
            UsesChunkSize(h, 261120)

\* A completed upload of three bytes through a bucket made without options
\* and without chunk size of its own: one chunk of three bytes, chunkSize 261120.
DefaultChunkSizeWitness ==
    \E h \in DOMAIN up :
        /\ options[h] = None
        /\ up[h].pc = "done"
        /\ up[h].chunk_size_bytes = None
        /\ Len(up[h].B) = 3
        /\ files[up[h].files_id].chunkSize = 261120
        /\ \E i \in 1..Len(chunks) : Len(chunks[i].data) = 3

\* C19: default options agree.  GridFSBucketOptions::default() and
\* GridFSBucketOptions::builder().build() are the same options, bucket_name "fs",
\* chunk_size_bytes 255 * 1024 and disable_md5 false, they are the options of
\* every bucket made from them or made without options, and an upload with them
\* records chunkSize 255 * 1024 and, md5 not disabled, an md5.
DefaultOptionsAgree ==
    /\ GridFSBucketOptions_default = GridFSBucketOptions_builder_build
    /\ GridFSBucketOptions_builder_build.bucket_name = "fs"
    /\ GridFSBucketOptions_builder_build.chunk_size_bytes = 255 * 1024
    /\ GridFSBucketOptions_builder_build.disable_md5 = FALSE
    /\ \A h \in DOMAIN up :
         /\ dboptions(h) = GridFSBucketOptions_builder_build
         /\ file_collection(h) = "fs.files"
         /\ chunk_collection(h) = "fs.chunks"
         /\ (up[h].pc = "done" /\ up[h].chunk_size_bytes = None) =>
                /\ files[up[h].files_id].chunkSize = 255 * 1024
                /\ "md5" \in DOMAIN files[up[h].files_id]

\* A completed upload through a bucket made with the built options.
DefaultOptionsAgreeWitness ==
    \E h \in DOMAIN up :
        /\ options[h] = Some(GridFSBucketOptions_builder_build)
        /\ up[h].pc = "done"
        /\ up[h].chunk_size_bytes = None
        /\ files[up[h].files_id].chunkSize = 261120
        /\ "md5" \in DOMAIN files[up[h].files_id]

\* The chunk size an upload call asked for: its own option when supplied,
\* otherwise the option of its bucket.
RequestedChunkSize(h) ==
    IF up[h].chunk_size_bytes # None
    THEN up[h].chunk_size_bytes[1]
    ELSE dboptions(h).chunk_size_bytes

\* The running upload uses the requested chunk size, its file document records
\* it, and no chunk of a file document is longer than the document's chunkSize.
EffectiveChunkSizeUsed ==
    /\ \A h \in DOMAIN up :
         /\ up[h].pc # "idle" => up[h].chunk_size = RequestedChunkSize(h)
         /\ (up[h].pc \in {"read", "update", "done"}
                 /\ up[h].files_id \in DOMAIN files) =>
                files[up[h].files_id].chunkSize = RequestedChunkSize(h)
    /\ \A id \in DOMAIN files :
         \A i \in 1..Len(chunks) :
             chunks[i].files_id = id => Len(chunks[i].data) <= files[id].chunkSize

\* No step changes the chunkSize of a file document that stays.
ChunkSizeFixedStep ==
    \A id \in DOMAIN files \cap DOMAIN files' :
        files'[id].chunkSize = files[id].chunkSize

\* C20: effective chunk size.  The chunk size of an upload is the call's
\* chunk_size_bytes when supplied, otherwise the bucket's; the chunkSize of the
\* file document is that value, no later step changes it, and no chunk of the
\* file has a longer payload.
EffectiveChunkSizeFixed ==
    [] EffectiveChunkSizeUsed /\ [][ChunkSizeFixedStep]_vars

\* A finalized file uploaded with a chunk size of its own that is not the
\* bucket's, renamed afterwards, with chunks.
EffectiveChunkSizeWitness ==
    \E h \in DOMAIN up : \E id \in DOMAIN files :
        /\ files[id].chunkSize = 1
        /\ dboptions(h).chunk_size_bytes = 2
        /\ files[id].filename = "renamed.txt"
        /\ "length" \in DOMAIN files[id]
        /\ files[id].length = 2
        /\ Cardinality({i \in 1..Len(chunks) : chunks[i].files_id = id}) = 2

\* An upload that has failed after its file document was inserted: the document
\* is there with the fields of the insert alone, and the chunks written before
\* the failure are there, numbered from 0 to n - 1.
FailedUploadLeftovers ==
    \A h \in DOMAIN up :
        (up[h].pc = "failed" /\ up[h].files_id # 0) =>
            /\ up[h].files_id \in DOMAIN files
            /\ DOMAIN files[up[h].files_id] \cap {"length", "uploadDate", "md5"} = {}
            /\ {"filename", "chunkSize"} \subseteq DOMAIN files[up[h].files_id]
            /\ SequenceNumbers(ChunksOf(up[h].files_id))
                   = [i \in 1..up[h].n |-> i - 1]
            /\ up[h].files_id \notin DOMAIN returned

\* The step in which an upload fails, and the return of the failed call, remove
\* and change no document.
FailedUploadStep ==
    \A h \in DOMAIN up :
        (up'[h].pc = "failed" \/ up[h].pc = "failed") =>
            /\ files' = files
            /\ chunks' = chunks

\* C21: no rollback.  When upload_from_stream fails after the insert of the file
\* document (at a read of the source, at the insert of chunk k, or at the final
\* update) it returns the error; the file document and the chunks 0..k-1 stay in
\* the store, the file document without length, uploadDate and md5, and no
\* delete follows.
NoRollback == [] FailedUploadLeftovers /\ [][FailedUploadStep]_vars

\* An upload that has failed at its second chunk or at the update after it: the
\* file document and one chunk are left.
NoRollbackWitness ==
    \E h \in DOMAIN up :
        /\ up[h].pc = "failed"
        /\ up[h].files_id \in DOMAIN files
        /\ up[h].n = 1
        /\ Len(ChunksOf(up[h].files_id)) = 1
        /\ "length" \notin DOMAIN files[up[h].files_id]

\* C22: a provisioning failure aborts the write.  An upload_from_stream call
\* that has met the error of a store operation of its provisioning step (the
\* probe of the files collection, list-collection-names, create-collection,
\* listIndexes or createIndexes) returns that error and has inserted no file
\* document and no chunk document.
ProvisioningFailureAborts ==
    \A h \in DOMAIN up :
        up[h].err \in ProvisioningPcs =>
            /\ up[h].pc = "failed"
            /\ up[h].files_id = 0
            /\ up[h].n = 0

\* C23: upload ordering as the documentation of upload_from_stream gives it.
\* The content of the source is uploaded as chunks, and the file document is
\* created after all the chunks: while an upload is at its chunk loop no file
\* document of its id exists.
FileDocumentAfterChunks ==
    \A h \in DOMAIN up :
        up[h].pc = "read" => up[h].files_id \notin DOMAIN files

\* The file of a completed upload, whatever ran beside it: its chunks are
\* numbered from 0 without gap, and its length is the sum of their lengths.
FileIsWhole(h) ==
    LET id == up[h].files_id
        docs == ChunksOf(id)
    IN  /\ id \in DOMAIN files
        /\ SequenceNumbers(docs) = [i \in 1..Len(docs) |-> i - 1]
        /\ "length" \in DOMAIN files[id]
        /\ files[id].length = Len(Concat(Payloads(docs)))

\* The file of a completed upload holds the bytes of the upload's own source.
FileIsOwnSource(h) ==
    LET id == up[h].files_id
    IN  /\ Concat(Payloads(ChunksOf(id))) = up[h].B
        /\ files[id].length = Len(up[h].B)

\* Two running uploads write two different files.
DifferentFiles ==
    \A g, h \in DOMAIN up :
        (g # h /\ up[g].files_id # 0) => up[g].files_id # up[h].files_id

\* A step of the call on handle h writes nothing but the file document and the
\* chunks of its own id: the other file documents and the chunks in the store
\* stay, what is added carries the call's id.
WritesOwnDocuments(h) ==
    LET id == up'[h].files_id
    IN  /\ \A i \in DOMAIN files : i # id => (i \in DOMAIN files' /\ files'[i] = files[i])
        /\ DOMAIN files' \subseteq DOMAIN files \cup {id}
        /\ \/ chunks' = chunks
           \/ /\ Len(chunks') = Len(chunks) + 1
              /\ SubSeq(chunks', 1, Len(chunks)) = chunks
              /\ chunks'[Len(chunks')].files_id = id

\* Every step is the step of one call, which writes its own documents only.
ConcurrentWritesDisjoint ==
    \E h \in DOMAIN up :
        /\ up'[h] # up[h]
        /\ \A g \in DOMAIN up \ {h} : up'[g] = up[g]
        /\ WritesOwnDocuments(h)

\* C24 as the specification states it: for every chunk size, files of concurrent
\* uploads that have completed hold each the bytes of its own source.
ConcurrentUploadsAnyChunkSize ==
    \A h \in DOMAIN up :
        up[h].pc = "done" => (FileIsWhole(h) /\ FileIsOwnSource(h))

\* C24: concurrent uploads to different files.  Under every interleaving of the
\* store operations of two upload_from_stream calls on two handles of one bucket,
\* the calls write two different files, every step writes the file document and
\* the chunks of its own call only, and on completion each file has its chunks
\* numbered from 0 without gap and a length that is the sum of their lengths;
\* for a chunk size C > 0 the chunks concatenate to the call's own source and
\* the length is its number of bytes.
ConcurrentUploads ==
    /\ [] DifferentFiles
    /\ [] (\A h \in DOMAIN up : up[h].pc = "done" => FileIsWhole(h))
    /\ [] (\A h \in DOMAIN up :
               (up[h].pc = "done" /\ up[h].chunk_size > 0) => FileIsOwnSource(h))
    /\ [][ConcurrentWritesDisjoint]_vars

\* Two uploads have completed whose chunk inserts alternated: the chunks of the
\* first file are around the chunk of the second in the chunks collection.
ConcurrentUploadsWitness ==
    /\ \A h \in DOMAIN up : up[h].pc = "done"
    /\ Len(chunks) = 3
    /\ chunks[1].files_id = chunks[3].files_id
    /\ chunks[2].files_id # chunks[1].files_id
    /\ \E h \in DOMAIN up : up[h].n = 2 /\ Len(up[h].B) = 2

\* The fields the final update of an upload sets.
FinalFields == {"length", "uploadDate", "md5"}

\* A file document comes into the store by the insert of an upload, with
\* filename and chunkSize and none of the final fields, before any of its chunks.
CreatedByInsert(id) ==
    (id \notin DOMAIN files /\ id \in DOMAIN files') =>
        /\ \E h \in DOMAIN up : up[h].pc = "insert_file" /\ up'[h].files_id = id
        /\ {"filename", "chunkSize"} \subseteq DOMAIN files'[id]
        /\ DOMAIN files'[id] \cap FinalFields = {}
        /\ ChunksOf(id) = <<>>
        /\ chunks' = chunks

\* A chunk is inserted for a file document that is there and is not final yet.
ChunksBeforeFinal ==
    Len(chunks') > Len(chunks) =>
        LET id == chunks'[Len(chunks')].files_id
        IN  /\ id \in DOMAIN files
            /\ DOMAIN files[id] \cap FinalFields = {}
            /\ files' = files

\* A file document that stays changes by the final update of its upload, once,
\* which adds final fields and touches no other, or by a rename, which changes
\* its filename and nothing else.
ChangedByUpdateOrRename(id) ==
    (id \in DOMAIN files /\ id \in DOMAIN files' /\ files'[id] # files[id]) =>
        \/ /\ \E h \in DOMAIN up :
                  up[h].pc = "update" /\ up[h].files_id = id /\ up'[h].pc = "done"
           /\ DOMAIN files[id] \cap FinalFields = {}
           /\ {"length", "uploadDate"} \subseteq DOMAIN files'[id]
           /\ DOMAIN files'[id] \subseteq DOMAIN files[id] \cup FinalFields
           /\ \A f \in DOMAIN files[id] : files'[id][f] = files[id][f]
        \/ /\ rn.pc = "idle" /\ rn'.pc = "done" /\ rn'.id = id
           /\ files'[id] = [files[id] EXCEPT !.filename = rn'.new_filename]

\* A file document leaves the store by delete.
RemovedByDelete(id) ==
    (id \in DOMAIN files /\ id \notin DOMAIN files') =>
        (del.pc = "idle" /\ del'.id = id)

\* A file document leaves the store by delete or by drop.
RemovedByDeleteOrDrop(id) ==
    (id \in DOMAIN files /\ id \notin DOMAIN files') =>
        \/ del.pc = "idle" /\ del'.id = id
        \/ dr.pc = "idle" /\ dr'.pc = "drop_chunks"

\* C25 as the specification states it: after the insert, the chunks and the one
\* final update, nothing but rename and delete changes the file document.
FileLifecycleRenameDelete ==
    [][/\ ChunksBeforeFinal
       /\ \A id \in Ids : /\ CreatedByInsert(id)
                          /\ ChangedByUpdateOrRename(id)
                          /\ RemovedByDelete(id)]_vars

\* C25: file-document lifecycle.  Within one upload the store operations come
\* in the order insert of the file document (filename and chunkSize, without
\* length, uploadDate and md5), chunk inserts, one final update; after that
\* update no operation changes the file document but rename, which changes its
\* filename only, and delete and drop, which remove it.
FileLifecycle ==
    [][/\ ChunksBeforeFinal
       /\ \A id \in Ids : /\ CreatedByInsert(id)
                          /\ ChangedByUpdateOrRename(id)
                          /\ RemovedByDeleteOrDrop(id)]_vars

\* A final file document that was renamed, beside the upload of a second file
\* that is at its chunk loop, one chunk written, its document not final.
FileLifecycleWitness ==
    \E h \in DOMAIN up : \E id \in DOMAIN files :
        /\ "length" \in DOMAIN files[id]
        /\ files[id].filename = "renamed.txt"
        /\ up[h].pc = "read"
        /\ up[h].files_id \in DOMAIN files \ {id}
        /\ DOMAIN files[up[h].files_id] \cap FinalFields = {}
        /\ up[h].n = 1

\* A call that has returned the error of a provisioning operation has left
\* never_write true.
FailedProvisioningKeepsFlag ==
    \A h \in DOMAIN up :
        (up[h].pc = "failed" /\ up[h].err \in ProvisioningPcs) => never_write[h]

\* A call on a handle whose never_write is true starts with the provisioning
\* step, and never_write becomes false only at the end of a provisioning step
\* none of whose store operations has failed.
FlagClearedWithoutError ==
    \A h \in DOMAIN up :
        /\ (up[h].pc = "idle" /\ up'[h].pc # "idle" /\ never_write[h]) =>
               up'[h].pc = "find_one"
        /\ (never_write[h] /\ ~never_write'[h]) =>
               /\ up[h].pc \in ProvisioningPcs
               /\ up'[h].pc = "insert_file"
               /\ up'[h].err = ""

\* C26: provisioned flag on failure.  When the provisioning step of an upload
\* has failed, never_write is left true and the next upload_from_stream on the
\* instance runs the provisioning step again; never_write becomes false only
\* when the provisioning step reaches its end without error.
FlagOnFailure == [] FailedProvisioningKeepsFlag /\ [][FlagClearedWithoutError]_vars

\* The places of ensure_file_index after the probe.
ProvisioningRequests ==
    {"list_collection_names", "create_collection", "listIndexes", "createIndexes"}

\* C27: existence probe short-circuit.  When the probe of the provisioning step
\* finds a document in the files collection, the step ends there: the call goes
\* on to the insert of its file document, never_write is false, the indexes of
\* the database are as they were, and the call sends no list-collection-names,
\* create-collection, listIndexes or createIndexes request.
ProbeShortCircuit ==
    [][\A h \in DOMAIN up :
           /\ (up[h].pc = "find_one" /\ up'[h] # up[h] /\ DOMAIN files # {}) =>
                  /\ up'[h].pc = "insert_file"
                  /\ ~never_write'[h]
                  /\ indexes' = indexes
           /\ (up[h].pc \notin ProvisioningPcs \cup {"idle"}) =>
                  up'[h].pc \notin ProvisioningRequests]_vars

\* A call whose probe has found the file document of another handle's upload:
\* it is at its insert and has entered no block of the provisioning step.
ProbeShortCircuitWitness ==
    \E h \in DOMAIN up :
        /\ up[h].pc = "insert_file"
        /\ up[h].coll = ""
        /\ up[h].err = ""
        /\ DOMAIN files # {}
        /\ ~never_write[h]

\* The key fields the provisioning step looks at in the indexes of a collection.
KeyFields(coll) ==
    IF coll = "files" THEN <<"filename", "uploadDate">> ELSE <<"files_id", "n">>

\* C28: index matching.  In a provisioning step on an empty files collection,
\* listIndexes is followed by no createIndexes for the collection exactly when
\* one of its indexes has the required key: the two key fields in their order,
\* nothing else, each valued Int32 1 or Double 1.  Otherwise createIndexes is
\* sent, for the index '<collection>_index' on {filename: 1, uploadDate: 1}
\* (files) or {files_id: 1, n: 1} (chunks).
IndexMatching ==
    [][\A h \in DOMAIN up :
           LET name == CollName(h, up[h].coll)
               fs == KeyFields(up[h].coll)
           IN  /\ (up[h].pc = "listIndexes" /\ up'[h] # up[h]) =>
                      (up'[h].pc # "createIndexes"
                           <=> HasAscendingIndex(name, fs[1], fs[2]))
               /\ (up[h].pc = "createIndexes" /\ up'[h] # up[h]) =>
                      /\ \E index \in indexes'[name] \ indexes[name] :
                             /\ index.name = name \o "_index"
                             /\ Len(index.key) = 2
                             /\ index.key[1].f = fs[1] /\ IsOne(index.key[1].val)
                             /\ index.key[2].f = fs[2] /\ IsOne(index.key[2].val)
                      /\ Cardinality(indexes'[name]) = Cardinality(indexes[name]) + 1
      ]_vars

\* A step changes the never_write of a handle only as a step of the provisioning
\* of that handle's own upload, and a clone starts with the flag of the handle
\* it is made from, which keeps its own.
FlagChangesOwnHandle ==
    /\ \A h \in DOMAIN never_write :
           never_write'[h] # never_write[h] =>
               /\ up[h].pc \in ProvisioningPcs
               /\ up'[h].pc = "insert_file"
               /\ \A g \in DOMAIN never_write \ {h} : never_write'[g] = never_write[g]
    /\ \A h \in DOMAIN never_write' \ DOMAIN never_write :
           \E g \in DOMAIN never_write : never_write'[h] = never_write[g]

\* The first upload call on a handle starts with the provisioning step.
FirstUploadProvisions ==
    \A h \in DOMAIN up :
        (h \in DOMAIN up' /\ ~called[h] /\ called'[h]) => up'[h].pc = "find_one"

\* The first upload call on a handle starts with the provisioning step when the
\* handle's never_write is true, and goes to the insert when it is false.
FirstUploadProvisionsIfFlag ==
    \A h \in DOMAIN up :
        (h \in DOMAIN up' /\ ~called[h] /\ called'[h]) =>
            (up'[h].pc = "find_one" <=> never_write[h])

\* A handle made by GridFSBucket::new and not used yet has never_write true.
NewHandleUnprovisioned == ~called[1] => never_write[1]

\* C29 as the specification states it: the flag is local to the instance, and
\* every instance, clones included, provisions on its own first upload.
FlagInstanceLocalAllProvision ==
    [][FlagChangesOwnHandle /\ FirstUploadProvisions]_vars

\* C29: the provisioned flag is instance-local.  An upload through one
\* GridFSBucket value changes the never_write of that value only, the value it
\* was cloned from and its clones keep theirs; a value made by new, and a clone
\* of a value whose flag is true, run the provisioning step on their own first
\* upload, and a clone of a value whose flag is false starts with the flag false
\* and runs none.
FlagInstanceLocal ==
    /\ [] NewHandleUnprovisioned
    /\ [][FlagChangesOwnHandle /\ FirstUploadProvisionsIfFlag]_vars

\* A bucket and its clone, made before the bucket's first upload: the bucket has
\* uploaded and its flag is false, the flag of the clone is still true.
FlagInstanceLocalWitness ==
    /\ DOMAIN up = {1, 2}
    /\ up[1].pc = "done"
    /\ ~never_write[1]
    /\ never_write[2]
    /\ ~called[2]

\* A collection has at most one index besides that on _id, and it is the one
\* named '<collection>_index'.
OneIndexPerCollection ==
    \A c \in DOMAIN indexes :
        /\ Cardinality(indexes[c] \ {IdIndex}) <= 1
        /\ \A index \in indexes[c] \ {IdIndex} : index.name = c \o "_index"

\* An upload fails by the error of a create_collection on a collection that
\* another handle has created, and by nothing else.
FailsByDuplicateCreateOnly ==
    \A h \in DOMAIN up :
        up[h].pc = "failed" =>
            /\ up[h].err = "create_collection"
            /\ CollName(h, up[h].coll) \in DOMAIN indexes
            /\ up[h].files_id = 0

\* C30: racing first use.  Two bucket instances that start their first upload
\* together on an empty bucket may both pass the probe and both send
\* create-collection and createIndexes for the same collection; the store taking
\* a second identical createIndexes as a no-op, in every interleaving a
\* collection has at most one '<collection>_index', and an upload fails only by
\* the error of a duplicate create-collection.
RacingFirstUse == OneIndexPerCollection /\ FailsByDuplicateCreateOnly

\* Both handles have passed the probe on the empty files collection and have
\* gone through both blocks: one has sent createIndexes for the chunks collection
\* and is at its insert, the other is at its createIndexes for the same
\* collection, whose index is there already.
RacingFirstUseWitness ==
    \E g, h \in DOMAIN up :
        /\ g # h
        /\ up[g].pc = "createIndexes" /\ up[g].coll = "chunks"
        /\ RequiredIndex(g, "chunks") \in indexes[chunk_collection(g)]
        /\ up[h].pc = "insert_file" /\ up[h].coll = "chunks"
        /\ files = <<>>

\* The bytes given to the upload of an id: those of the call that is running, or
\* of the call that has returned.
SourceOf(id) ==
    IF id \in DOMAIN returned THEN returned[id]
    ELSE IF \E h \in DOMAIN up : up[h].files_id = id
    THEN up[CHOOSE h \in DOMAIN up : up[h].files_id = id].B
    ELSE <<>>

\* Whether a sequence of bytes is the beginning of another.
IsPrefix(a, b) == Len(a) <= Len(b) /\ a = SubSeq(b, 1, Len(a))

\* The bytes of a download's stream: those yielded and those still to come.
StreamBytes == Concat(dl.out) \o Concat(Payloads(dl.cursor))

\* C31: reader racing writer.  A download of id opened while the upload of id
\* has inserted its file document and has not made it final succeeds, without
\* error, and its stream holds the chunks of id that were in the store when the
\* chunks were asked for and no other: a beginning of the source, which in some
\* interleaving is shorter than the source.
ReaderRacingWriter ==
    (dl.pc \in {"streaming", "ended"} /\ ~dl.after_ok) =>
        /\ dl.result = "Ok"
        /\ StreamBytes = Concat(Payloads(chunks_find(dl.snapshot, dl.id)))
        /\ IsPrefix(StreamBytes, SourceOf(dl.id))

\* A download that has read its stream to the end and got one byte of a source
\* of two, while the upload is still at its chunk loop, its file document
\* without length.
ReaderRacingWriterWitness ==
    /\ dl.pc = "ended"
    /\ ~dl.after_ok
    /\ dl.result = "Ok"
    /\ Len(Concat(dl.out)) = 1
    /\ \E h \in DOMAIN up :
         /\ up[h].files_id = dl.id
         /\ up[h].pc = "read"
         /\ Len(up[h].B) = 2
         /\ "length" \notin DOMAIN files[dl.id]

\* The number of bytes in the first i chunks of a file.
BytesUpTo(id, i) == Len(Concat(Payloads(SubSeq(ChunksOf(id), 1, i))))

\* C32: progress callback.  An upload with a progress_tick calls it once per
\* chunk, after the insert of the chunk and before the next read, with the
\* number of bytes written so far: the values are strictly increasing and the
\* last is the final length; the chunks, the length and the checksum are what
\* the chunks written make them, as in an upload without callback, which calls
\* nothing.
ProgressCallback ==
    \A h \in DOMAIN up :
        LET u == up[h]
            id == u.files_id
        IN  /\ ~u.progress_tick => u.ticks = <<>>
            /\ (u.pc \in {"read", "update", "done", "failed"} /\ id # 0) =>
                   /\ u.progress_tick =>
                          /\ Len(u.ticks) = u.n
                          /\ Len(u.ticks) = Len(ChunksOf(id))
                          /\ \A i \in 1..Len(u.ticks) : u.ticks[i] = BytesUpTo(id, i)
                          /\ \A i \in 1..(Len(u.ticks) - 1) : u.ticks[i] < u.ticks[i + 1]
                          /\ u.ticks # <<>> => u.ticks[Len(u.ticks)] = u.length
                   /\ u.length = Len(Concat(Payloads(ChunksOf(id))))
                   /\ u.md5 = Md5Update(Md5Default, Concat(Payloads(ChunksOf(id))))
                   /\ u.pc = "done" =>
                          /\ files[id].length = u.length
                          /\ ~u.disable_md5 =>
                                 files[id].md5 = Digest(Concat(Payloads(ChunksOf(id))))

\* A completed upload of three bytes in two chunks with a progress_tick, which
\* was told 2 and then 3.
ProgressCallbackWitness ==
    \E h \in DOMAIN up :
        /\ up[h].pc = "done"
        /\ up[h].progress_tick
        /\ up[h].ticks = <<2, 3>>
        /\ files[up[h].files_id].length = 3

\* C33: metadata field.  The file document that upload_from_stream inserts has
\* a metadata field equal to the document of the options when the options carry
\* metadata, and no metadata field when there are no options or no metadata in
\* them; the final update leaves it so.
MetadataField ==
    \A h \in DOMAIN up :
        LET u == up[h]
        IN  (u.files_id # 0 /\ u.files_id \in DOMAIN files) =>
                IF u.metadata = None
                THEN "metadata" \notin DOMAIN files[u.files_id]
                ELSE /\ "metadata" \in DOMAIN files[u.files_id]
                     /\ files[u.files_id].metadata = u.metadata[1]

\* Two completed uploads through one handle: the first without metadata, whose
\* file document has no metadata field, the second with a metadata document.
MetadataFieldWitness ==
    \E h \in DOMAIN up :
        /\ up[h].pc = "done"
        /\ up[h].files_id = 2
        /\ up[h].metadata = Some([author |-> "me"])
        /\ files[2].metadata = [author |-> "me"]
        /\ 1 \in DOMAIN files
        /\ "metadata" \notin DOMAIN files[1]

\* C34: store failures while opening a download are surfaced as errors.  A
\* call of open_download_stream whose lookup of the file document or whose query
\* of the chunks fails in the store returns MongoError and does not end in a
\* panic; the chunks are queried at most once in a call.
StoreFailuresSurfaced ==
    /\ dl.result # "panic"
    /\ dl.chunk_finds <= 1
    /\ (dl.pc = "done" /\ dl.result = "MongoError") => dl.cursor = <<>>

\* The buffers a download stream has yielded and will yield.
StreamBuffers == dl.out \o [i \in 1..Len(dl.cursor) |-> stream_item(dl.cursor[i])]

\* C35: filename variant.  open_download_stream_with_filename(id) returns the
\* filename that the file document holds at the lookup.  A file document gets
\* its filename from the upload that inserts it, and after that only a
\* successful rename of its id changes it, to the argument of that rename.  The
\* stream yields the data of the chunks of id in the order of n, which is the
\* stream of open_download_stream(id).
FilenameVariant ==
    /\ [](dl.pc \in {"streaming", "ended"} =>
              StreamBuffers = Payloads(chunks_find(dl.snapshot, dl.id)))
    /\ [][/\ (dl.pc = "idle" /\ dl'.pc = "chunks_find") =>
                 /\ dl'.id \in DOMAIN files
                 /\ dl'.filename = files[dl'.id].filename
          /\ (dl.pc = "chunks_find" /\ dl'.pc = "streaming") =>
                 dl'.filename = dl.filename
          /\ \A id \in DOMAIN files' \ DOMAIN files :
                 \E h \in DOMAIN up : /\ up'[h].files_id = id
                                      /\ files'[id].filename = up[h].filename
          /\ \A id \in DOMAIN files \cap DOMAIN files' :
                 files'[id].filename # files[id].filename =>
                     /\ rn.pc = "idle" /\ rn'.pc = "done"
                     /\ rn'.result = "Ok" /\ rn'.id = id
          /\ (rn.pc = "idle" /\ rn'.pc = "done" /\ rn'.result = "Ok"
                  /\ rn'.id \in DOMAIN files) =>
                 files'[rn'.id].filename = rn'.new_filename
      ]_vars

\* A download of a file that was uploaded and then renamed to renamed.txt: the
\* stream has ended after two buffers and the filename returned is the argument
\* of the rename.
FilenameVariantWitness ==
    /\ dl.pc = "ended"
    /\ dl.id \in DOMAIN returned
    /\ dl.filename = "renamed.txt"
    /\ files[dl.id].filename = "renamed.txt"
    /\ Len(dl.out) = 2

\* C36: indexes always cover written data.  After any sequence of uploads,
\* deletes, renames and drops through one bucket handle, the chunks collection
\* has the index on {files_id, n} whenever it holds a chunk document, and the
\* files collection has the index on {filename, uploadDate} whenever it holds a
\* file document; so also for an upload after a drop through the same handle.
IndexesCoverWrittenData ==
    \A h \in DOMAIN up :
        /\ chunks # <<>> => HasAscendingIndex(chunk_collection(h), "files_id", "n")
        /\ DOMAIN files # {} =>
               HasAscendingIndex(file_collection(h), "filename", "uploadDate")

\* C37: upload success implies a finalized file.  Whatever deletes run beside
\* an upload, at the step in which upload_from_stream returns Ok(id) a file
\* document with _id = id exists and its length is the number of bytes the
\* upload has read from its source.
UploadSuccessImpliesFinalized ==
    [][\A h \in DOMAIN up :
           (up[h].pc = "update" /\ up'[h].pc = "done") =>
               /\ up'[h].files_id \in DOMAIN files'
               /\ "length" \in DOMAIN files'[up'[h].files_id]
               /\ files'[up'[h].files_id].length = up'[h].length
      ]_vars

\* C38: no orphaned chunks at quiescence.  With a store in which no operation
\* fails, whenever no upload and no delete is running every chunk document has
\* the _id of a file document of the files collection as its files_id.
NoOrphanedChunksAtQuiescence ==
    ((\A h \in DOMAIN up : up[h].pc = "idle") /\ del.pc = "idle") =>
        \A i \in 1..Len(chunks) : chunks[i].files_id \in DOMAIN files

\* C39: delete leaves state unchanged on error and touches only its own file.
\* A delete(id) that returns FileNotFound or a store failure leaves the file
\* document and the chunk documents of id as they were when it was called; and
\* no step of a delete changes the file document or the chunk documents of
\* another id.
DeleteUnchangedOnError ==
    [][/\ (del.pc = "idle" /\ del'.pc = "done") =>
              /\ del'.result \in {"FileNotFound", "MongoError"}
              /\ files' = files
              /\ chunks' = chunks
       /\ (del.pc = "delete_many" /\ del'.pc = "done"
               /\ del'.result = "MongoError") =>
              /\ del'.id \in DOMAIN files'
              /\ chunks' = chunks
       /\ (del' # del /\ del'.pc # "idle") =>
              \A id \in Ids \ {del'.id} :
                  /\ id \in DOMAIN files <=> id \in DOMAIN files'
                  /\ id \in DOMAIN files => files'[id] = files[id]
                  /\ SelectSeq2(chunks', id) = SelectSeq2(chunks, id)
      ]_vars

\* C40: upload terminates.  With a source that comes to its end and a store
\* that answers every call, a running upload_from_stream returns.  While it
\* runs it has inserted one chunk per read that was not empty, and it returns
\* Ok only from its one final update.  With a chunk size of 0 the first read is
\* empty: the call returns with no chunk document and length 0 whatever the
\* source holds.
UploadTerminates ==
    /\ \A h \in WriterHandles :
           (up[h].pc # "idle") ~> (up[h].pc \in {"done", "failed"})
    /\ [](\A h \in WriterHandles :
              LET u == up[h]
                  id == u.files_id
              IN  (u.pc \in {"read", "update", "done"}) =>
                      /\ u.n = Len(ChunksOf(id))
                      /\ \A i \in 1..Len(ChunksOf(id)) : ChunksOf(id)[i].data # <<>>
                      /\ u.length = Len(u.B) - Len(u.source)
                      /\ (u.pc # "read" /\ u.chunk_size > 0) => u.source = <<>>
                      /\ u.chunk_size = 0 =>
                             /\ u.n = 0 /\ u.length = 0
                             /\ ChunksOf(id) = <<>>
                             /\ u.pc = "done" => files[id].length = 0)
    /\ [][\A h \in WriterHandles :
              /\ (up[h].pc # "done" /\ up'[h].pc = "done") =>
                     /\ up[h].pc = "update"
                     /\ clock' = clock + 1
              /\ (up[h].pc = "update" /\ up'[h] # up[h]) =>
                     up'[h].pc \in {"done", "failed"}
      ]_vars

\* Two uploads that have returned Ok: the first of two bytes in two chunks, the
\* second with a chunk size of 0 and a source of one byte, which has no chunk
\* and length 0.
UploadTerminatesWitness ==
    \E h \in DOMAIN up :
        /\ up[h].pc = "done"
        /\ up[h].files_id = 2
        /\ up[h].chunk_size = 0
        /\ Len(up[h].B) = 1
        /\ files[2].length = 0
        /\ ChunksOf(2) = <<>>
        /\ 1 \in DOMAIN files
        /\ "length" \in DOMAIN files[1]
        /\ files[1].length = 2
        /\ Len(ChunksOf(1)) = 2

====
